---- MODULE Spec2Model ----
(***************************************************************************)
(* CloudShaver: the two cost analyzers (EC2Blade and RDSBlade) and their   *)
(* collaborators.  One behaviour is one analyzer object run against a      *)
(* fixed set of collaborator responses (env); Execute is stepped through   *)
(* its call sites.  Money is counted in cents, or in hundredths of a cent  *)
(* where the environment holds pricing data with sub-cent hourly prices.   *)
(* A recommendation line is modelled by the values its format string       *)
(* prints: an amount is carried in cents, as "%.2f" rounds it.             *)
(***************************************************************************)
EXTENDS Integers, Sequences, FiniteSets, TLC

VARIABLES env, pc, result, err, calls, volumes, checks,
          instances, snapshots, idx, totalPotentialSavings, runs, prev,
          cache, cacheMutex, routines, now, blades

\* The state of one PricingClient and of the goroutines calling it.
cacheVars == <<cache, cacheMutex, routines, now>>

vars == <<env, pc, result, err, calls, volumes, checks,
          instances, snapshots, idx, totalPotentialSavings, runs, prev, cacheVars,
          blades>>

(***************************************************************************)
(* Bounds of the explored inputs.                                          *)
(***************************************************************************)
MaxInstances == 2
MaxVolumes == 2
MaxDBInstances == 2
MaxPricedVolumes == 2
MaxOtherDBInstances == 1
MaxCoverage == 5
MaxGoroutines == 2
MaxClock == 1
MaxClientArguments == 2

Nil == "nil"

Ok(v) == [ok |-> TRUE, val |-> v]
Failed == [ok |-> FALSE, val |-> 0]

Call(op, arg) == [op |-> op, arg |-> arg]

Line(kind, id, a, b, n, amount) ==
    [kind |-> kind, id |-> id, a |-> a, b |-> b, n |-> n, amount |-> amount]

Put(m, k, v) == (k :> v) @@ m

EmptyMap == [k \in {} |-> 0]

Orderings(S) ==
    {s \in [1..Cardinality(S) -> S] :
        \A i, j \in 1..Cardinality(S) : i # j => s[i] # s[j]}

RECURSIVE SumAmounts(_)
SumAmounts(s) == IF s = <<>> THEN 0 ELSE Head(s).amount + SumAmounts(Tail(s))

(***************************************************************************)
(* float64.  Every amount, price and metric of the analyzers is a Go       *)
(* float64, and its arithmetic rounds: 0.1 + 0.125 is a little more than   *)
(* 0.225, and 66 * 0.4 a little more than 26.4.  A float64 is modelled     *)
(* here by its exact value, (-1)^neg * m * 2^e with m below 2^53, and      *)
(* every operation rounds the exact answer to the nearest such value, a    *)
(* tie going to the even m (IEEE 754 binary64, each operation rounded by   *)
(* itself as on amd64; the values of this model stay far from overflow     *)
(* and from the subnormal range).  m does not fit an integer of the        *)
(* checker, so it is a sequence of digits to the base 32768, the least     *)
(* significant first and no leading zero.                                  *)
(***************************************************************************)

RECURSIVE BigTrim(_)
BigTrim(a) == IF a # <<>> /\ a[Len(a)] = 0 THEN BigTrim(SubSeq(a, 1, Len(a) - 1)) ELSE a

BigOf(k) == BigTrim(<<k % 32768, (k \div 32768) % 32768, k \div 1073741824>>)

RECURSIVE BigInt(_)
BigInt(a) == IF a = <<>> THEN 0 ELSE Head(a) + 32768 * BigInt(Tail(a))

Limb(a, i) == IF i <= Len(a) THEN a[i] ELSE 0

RECURSIVE BigAddFrom(_, _, _, _)
BigAddFrom(a, b, i, carry) ==
    IF i > Len(a) /\ i > Len(b) THEN (IF carry = 0 THEN <<>> ELSE <<carry>>)
    ELSE LET s == Limb(a, i) + Limb(b, i) + carry
         IN <<s % 32768>> \o BigAddFrom(a, b, i + 1, s \div 32768)

BigAdd(a, b) == BigAddFrom(a, b, 1, 0)

RECURSIVE BigSubFrom(_, _, _, _)
BigSubFrom(a, b, i, borrow) ==
    IF i > Len(a) THEN <<>>
    ELSE LET s == Limb(a, i) - Limb(b, i) - borrow
         IN <<s % 32768>> \o BigSubFrom(a, b, i + 1, IF s < 0 THEN 1 ELSE 0)

BigSub(a, b) == BigTrim(BigSubFrom(a, b, 1, 0))

RECURSIVE BigCmpFrom(_, _, _)
BigCmpFrom(a, b, i) ==
    IF i = 0 THEN 0
    ELSE IF a[i] > b[i] THEN 1
    ELSE IF a[i] < b[i] THEN -1
    ELSE BigCmpFrom(a, b, i - 1)

BigCmp(a, b) ==
    IF Len(a) > Len(b) THEN 1
    ELSE IF Len(a) < Len(b) THEN -1
    ELSE BigCmpFrom(a, b, Len(a))

RECURSIVE BigTimesFrom(_, _, _, _)
BigTimesFrom(a, k, i, carry) ==
    IF i > Len(a) THEN (IF carry = 0 THEN <<>> ELSE <<carry>>)
    ELSE LET s == a[i] * k + carry
         IN <<s % 32768>> \o BigTimesFrom(a, k, i + 1, s \div 32768)

BigTimes(a, k) == IF k = 0 THEN <<>> ELSE BigTimesFrom(a, k, 1, 0)

RECURSIVE BigMul(_, _)
BigMul(a, b) ==
    IF a = <<>> \/ b = <<>> THEN <<>>
    ELSE BigAdd(BigTimes(a, Head(b)), BigTrim(<<0>> \o BigMul(a, Tail(b))))

BigShl(a, k) ==
    IF a = <<>> THEN <<>>
    ELSE [i \in 1..(k \div 15) |-> 0] \o BigTimes(a, 2 ^ (k % 15))

RECURSIVE BitsOf(_)
BitsOf(x) == IF x = 0 THEN 0 ELSE 1 + BitsOf(x \div 2)

BigBits(a) == IF a = <<>> THEN 0 ELSE 15 * (Len(a) - 1) + BitsOf(a[Len(a)])

\* The bit of a that counts 2^j, and whether a has a bit set below it.
BigBit(a, j) == (Limb(a, (j \div 15) + 1) \div (2 ^ (j % 15))) % 2

BigLow(a, j) ==
    \/ \E i \in 1..Len(a) : i <= j \div 15 /\ a[i] # 0
    \/ Limb(a, (j \div 15) + 1) % (2 ^ (j % 15)) # 0

\* Division by a single digit, from the most significant digit down.
RECURSIVE BigShortDivFrom(_, _, _, _)
BigShortDivFrom(a, d, i, r) ==
    IF i = 0 THEN [q |-> <<>>, r |-> r]
    ELSE LET cur == r * 32768 + a[i]
             rest == BigShortDivFrom(a, d, i - 1, cur % d)
         IN [q |-> rest.q \o <<cur \div d>>, r |-> rest.r]

\* Long division: the next digit g of the quotient is the largest with
\* d * g <= cur, found by halving.
RECURSIVE DigitOf(_, _, _, _)
RECURSIVE DigitAt(_, _, _, _, _)
DigitAt(r, d, lo, hi, mid) ==
    IF BigCmp(BigTimes(d, mid), r) <= 0 THEN DigitOf(r, d, mid, hi)
    ELSE DigitOf(r, d, lo, mid - 1)

DigitOf(r, d, lo, hi) ==
    IF lo = hi THEN lo ELSE DigitAt(r, d, lo, hi, (lo + hi + 1) \div 2)

RECURSIVE BigDivFrom(_, _, _, _)
RECURSIVE BigDivDigit(_, _, _, _, _)
BigDivPut(rest, g) == [q |-> rest.q \o <<g>>, r |-> rest.r]

BigDivDigit(a, d, i, cur, g) ==
    BigDivPut(BigDivFrom(a, d, i - 1, BigSub(cur, BigTimes(d, g))), g)

BigDivFrom(a, d, i, r) ==
    IF i = 0 THEN [q |-> <<>>, r |-> r]
    ELSE BigDivDigit(a, d, i, BigTrim(<<a[i]>> \o r),
                     DigitOf(BigTrim(<<a[i]>> \o r), d, 0, 32767))

\* Quotient q and remainder r of a by d (d not zero).
BigShortQuotient(dm) == [q |-> BigTrim(dm.q), r |-> BigOf(dm.r)]

BigLongQuotient(dm) == [q |-> BigTrim(dm.q), r |-> dm.r]

BigDivMod(a, d) ==
    IF Len(d) = 1 THEN BigShortQuotient(BigShortDivFrom(a, d[1], Len(a), 0))
    ELSE BigLongQuotient(BigDivFrom(a, d, Len(a), <<>>))

\* The quotient of a by 2^k.
BigShr(a, k) ==
    IF k \div 15 >= Len(a) THEN <<>>
    ELSE BigTrim(BigShortDivFrom(SubSeq(a, (k \div 15) + 1, Len(a)), 2 ^ (k % 15),
                                 Len(a) - (k \div 15), 0).q)

\* The float64 nearest to (-1)^neg * n * 2^e, a tie going to the even
\* mantissa; sticky tells that n lost digits behind its last one.  n is cut
\* to 53 bits: k bits go, and the mantissa is raised by one when the first
\* of them is set and either another is, or digits were lost, or the
\* mantissa is odd.
F64RoundBy(neg, n, e, sticky, k) ==
    IF k <= 0 THEN [neg |-> neg /\ n # <<>>, m |-> n, e |-> IF n = <<>> THEN 0 ELSE e]
    ELSE [neg |-> neg,
          m |-> BigAdd(BigShr(n, k),
                       IF /\ BigBit(n, k - 1) = 1
                          /\ sticky \/ BigLow(n, k - 1) \/ BigBit(n, k) = 1
                       THEN <<1>> ELSE <<>>),
          e |-> e + k]

F64Round(neg, n, e, sticky) == F64RoundBy(neg, n, e, sticky, BigBits(n) - 53)

\* The quotient of two whole numbers, correctly rounded: it is taken to 55
\* bits or more, the remainder telling whether bits were lost behind them.
F64QuotientOf(neg, dm, e) == F64Round(neg, dm.q, e, dm.r # <<>>)

F64QuotientBy(neg, a, b, e, k) == F64QuotientOf(neg, BigDivMod(BigShl(a, k), b), e - k)

F64Quotient(neg, a, b, e) ==
    F64QuotientBy(neg, a, b, e, IF a = <<>> THEN 0 ELSE 56 + BigBits(b) - BigBits(a))

\* The float64 of the decimal p/q (q > 0), as a literal or a parsed price has it.
F64Ratio(p, q) == F64Quotient(p < 0, BigOf(IF p < 0 THEN -p ELSE p), BigOf(q), 0)

\* float64(k): a whole number of the model's size is held exactly.
F64Int(k) == [neg |-> k < 0, m |-> BigOf(IF k < 0 THEN -k ELSE k), e |-> 0]

F64Mul(x, y) == F64Round(x.neg # y.neg, BigMul(x.m, y.m), x.e + y.e, FALSE)

F64Div(x, y) == F64Quotient(x.neg # y.neg, x.m, y.m, x.e - y.e)

F64Neg(x) == [x EXCEPT !.neg = ~x.neg /\ x.m # <<>>]

\* a * 2^e and b * 2^e with their signs, added and rounded.
F64AddBig(xneg, a, yneg, b, e) ==
    F64Round(IF xneg = yneg THEN xneg
             ELSE IF BigCmp(a, b) >= 0 THEN xneg /\ a # b ELSE yneg,
             IF xneg = yneg THEN BigAdd(a, b)
             ELSE IF BigCmp(a, b) >= 0 THEN BigSub(a, b) ELSE BigSub(b, a),
             e, FALSE)

F64AddAt(x, y, e) ==
    F64AddBig(x.neg, BigShl(x.m, x.e - e), y.neg, BigShl(y.m, y.e - e), e)

F64Add(x, y) == F64AddAt(x, y, IF x.e < y.e THEN x.e ELSE y.e)

F64Sub(x, y) == F64Add(x, F64Neg(y))

\* -1, 0, 1 as x is below, equal to or above y
F64CmpAt(x, y, e) == BigCmp(BigShl(x.m, x.e - e), BigShl(y.m, y.e - e))

F64Cmp(x, y) ==
    IF x.neg # y.neg THEN (IF x.neg THEN -1 ELSE 1)
    ELSE (IF x.neg THEN -1 ELSE 1) * F64CmpAt(x, y, IF x.e < y.e THEN x.e ELSE y.e)

\* strconv's "%.<digits>f" of x as a whole number of the last digit shown:
\* the exact binary value of x times 10^digits, n * 2^e, rounded to the
\* nearest whole number, a tie going to the even one.
F64FixedOf(neg, n, e) ==
    (IF neg THEN -1 ELSE 1) *
    (IF e >= 0 THEN BigInt(BigShl(n, e))
     ELSE BigInt(BigShr(n, -e))
          + (IF /\ BigBit(n, -e - 1) = 1
                /\ BigLow(n, -e - 1) \/ BigBit(n, -e) = 1
             THEN 1 ELSE 0))

F64Fixed(x, digits) == F64FixedOf(x.neg, BigMul(x.m, BigOf(10 ^ digits)), x.e)

F64Zero == [neg |-> FALSE, m |-> <<>>, e |-> 0]

\* x * 2^k, which float64 holds exactly: "* 1024 * 1024", "/ (1024 * 1024)"
F64Scale(x, k) == [x EXCEPT !.e = IF x.m = <<>> THEN 0 ELSE @ + k]

\* sum += v over the values in turn
RECURSIVE F64Sum(_, _)
F64Sum(sum, values) ==
    IF values = <<>> THEN sum ELSE F64Sum(F64Add(sum, Head(values)), Tail(values))

\* What "%.<digits>f" prints of a value, as a whole number of its last
\* printed digit.  num/den (den > 0) is the value computed without rounding
\* and float the float64 the code holds.  The two differ by far less than
\* the distance of num/den to the nearest printing boundary unless num/den
\* is on one, so the exact value decides every case but that one, where the
\* digits of the float64 are printed (ties of its exact value to even).
Printed(num, den, digits, float) ==
    LET q == num \div den
        r == num % den
    IN IF 2 * r < den THEN q
       ELSE IF 2 * r > den THEN q + 1
       ELSE F64Fixed(float, digits)

(***************************************************************************)
(* Static tables of the analyzers.                                         *)
(***************************************************************************)
instanceUpgrades ==
    ("t2.micro" :> "t3.micro") @@ ("t2.small" :> "t3.small") @@
    ("t2.medium" :> "t3.medium") @@ ("m4.large" :> "m5.large") @@
    ("m4.xlarge" :> "m5.xlarge") @@ ("c4.large" :> "c5.large") @@
    ("c4.xlarge" :> "c5.xlarge")

rdsInstanceUpgrades ==
    ("db.t3.micro" :> "db.t4g.micro") @@ ("db.t3.small" :> "db.t4g.small") @@
    ("db.t3.medium" :> "db.t4g.medium") @@ ("db.r5.large" :> "db.r6g.large") @@
    ("db.r5.xlarge" :> "db.r6g.xlarge") @@ ("db.m5.large" :> "db.m6g.large") @@
    ("db.m5.xlarge" :> "db.m6g.xlarge")

(***************************************************************************)
(* The explored collaborator responses.                                    *)
(***************************************************************************)
InstanceIdOf == <<"i-1", "i-2", "i-3", "i-4">>
VolumeIdOf == <<"vol-1", "vol-2", "vol-3", "vol-4">>
DBInstanceIdOf == <<"db-1", "db-2", "db-3", "db-4", "db-5", "db-6", "db-7", "db-8">>

\* Kinds of compute instance explored: the two Upgrade Map keys t2.micro and
\* m4.large, the unmapped m5.large, and a stopped instance.
InstanceKinds ==
    {<<"t2.micro", "running">>, <<"m4.large", "running">>,
     <<"m5.large", "running">>, <<"t2.micro", "stopped">>}
InstanceTypes == {k[1] : k \in InstanceKinds}
VolumeTypes == {"gp2"}
\* Sizes in GiB.  The Size of an inventory record is an *int32: <<>> is nil,
\* <<n>> points to n.
VolumeSizes == {100}
PriceOutcomes == {Ok(10), Failed}

InstanceLists ==
    UNION {{[k \in 1..n |-> [id |-> InstanceIdOf[k], type |-> f[k][1], state |-> f[k][2]]] :
              f \in [1..n -> InstanceKinds]} : n \in 0..MaxInstances}

VolumeAttachments == {"none", "i-1", "i-2"}

VolumeLists ==
    UNION {{[k \in 1..n |-> [id |-> VolumeIdOf[k], type |-> f[k][1], size |-> <<f[k][2]>>,
                             state |-> IF f[k][3] = "none" THEN "available" ELSE "in-use",
                             attachedTo |-> f[k][3]]] :
              f \in [1..n -> VolumeTypes \X VolumeSizes \X VolumeAttachments]} : n \in 0..MaxVolumes}

\* Call sites of the compute analyzer whose request may fail.
EC2FailPoints ==
    {Call("DescribeVolumes", "all"), Call("DescribeInstances", "running"),
     Call("DescribeInstances", "stopped"), Call("DescribeVolumes", "i-1")}

\* Answers of the pricing lookup per current type: every kind of answer for
\* t2.micro, a positive delta for the others (m5.large is never a key of the
\* Upgrade Map, yet the lookup would answer with a positive delta).
SavingsOutcomes(type) ==
    CASE type = "t2.micro" -> {Ok(-3), Ok(0), Ok(5), Failed}
      [] type = "db.t3.micro" -> {Ok(-3), Ok(0), Ok(5), Failed}
      [] type \in {"m4.large", "db.m5.large"} -> {Ok(7)}
      [] OTHER -> {Ok(9)}

SavingsTables(types) ==
    {f \in [types -> UNION {SavingsOutcomes(t) : t \in types}] :
        \A t \in types : f[t] \in SavingsOutcomes(t)}

\* PricingService.GetVolumePrice fails for every type in an unsupported region.
PriceTables(regionSupported) ==
    IF regionSupported THEN [VolumeTypes -> PriceOutcomes] ELSE [VolumeTypes -> {Failed}]

EC2Envs ==
    UNION {[blade : {"EC2"},
            instances : InstanceLists,
            volumes : VolumeLists,
            savings : SavingsTables(InstanceTypes),
            regionSupported : {r},
            price : PriceTables(r),
            failing : SUBSET EC2FailPoints] : r \in BOOLEAN}

\* Kinds of database instance explored: the Upgrade Map keys db.t3.micro and
\* db.m5.large and the unmapped db.m6g.large, on a plain and on an aurora
\* engine.  The other fields are those of the record CreateTestRDSInstance
\* builds: 20 GiB allocated, neither MultiAZ nor BackupRetentionPeriod set.
DBClasses == {"db.t3.micro", "db.m5.large", "db.m6g.large"}
DBEngines == {"mysql", "aurora"}
\* A *bool of the inventory record: <<>> is nil, <<b>> points to b.
DBMultiAZ == {<<>>}
DBAllocatedStorage == {20}
\* A *int32 of the inventory record: <<>> is nil, <<n>> points to n.
DBBackupRetention == {<<>>}

\* Answers of the metrics provider for one instance: a failure, a response
\* without any result (every metric stays 0), and a response of a busy
\* instance.
BusyMetricData ==
    ("cpu" :> <<40, 60>>) @@ ("connections" :> <<30>>) @@ ("burst_balance" :> <<100>>)

MetricOutcomes ==
    {[ok |-> FALSE, val |-> EmptyMap], [ok |-> TRUE, val |-> EmptyMap],
     [ok |-> TRUE, val |-> BusyMetricData]}

DBInstanceKinds ==
    [class : DBClasses, engine : DBEngines, multiAZ : DBMultiAZ,
     allocatedStorage : DBAllocatedStorage, backupRetention : DBBackupRetention]

DBInstanceListsOf(n) ==
    {[k \in 1..n |-> [id |-> DBInstanceIdOf[k], class |-> f[k].class,
                      engine |-> f[k].engine, multiAZ |-> f[k].multiAZ,
                      allocatedStorage |-> f[k].allocatedStorage,
                      backupRetention |-> f[k].backupRetention]] :
       f \in [1..n -> DBInstanceKinds]}

SnapshotLists == {<<[id |-> "snap-1", dbInstance |-> "db-1"]>>}

ReservedLists == {<<>>}

RDSFailPoints ==
    {Call("DescribeDBInstances", "all"), Call("DescribeDBSnapshots", "all"),
     Call("DescribeReservedDBInstances", "all")}

RDSEnvs ==
    UNION {[blade : {"RDS"},
            dbInstances : DBInstanceListsOf(n),
            metricData : [{DBInstanceIdOf[k] : k \in 1..n} -> MetricOutcomes],
            dbSnapshots : SnapshotLists,
            reserved : ReservedLists,
            savings : SavingsTables(DBClasses),
            failing : SUBSET RDSFailPoints] : n \in 0..MaxDBInstances}

(***************************************************************************)
(* Result model.                                                           *)
(***************************************************************************)
NilResult ==
    [isNil |-> TRUE, ResourceType |-> "", PotentialSavings |-> 0,
     Recommendations |-> <<>>, Details |-> EmptyMap]

NewBladeResult(resourceType) ==
    [isNil |-> FALSE, ResourceType |-> resourceType, PotentialSavings |-> 0,
     Recommendations |-> <<>>, Details |-> EmptyMap]

\* What a check hands back: (float64, []string, error), the requests it
\* issued, and whether it ended in a nil dereference instead of returning.
CheckOutcome(savings, recs, failed, issued) ==
    [savings |-> savings, recs |-> recs, err |-> failed, calls |-> issued, panic |-> FALSE]

\* The check dereferenced a nil pointer after issuing these requests.
Crashed(issued) ==
    [savings |-> 0, recs |-> <<>>, err |-> FALSE, calls |-> issued, panic |-> TRUE]

(***************************************************************************)
(* Collaborators: inventory providers and pricing lookup.                  *)
(***************************************************************************)
Fails(e, call) == call \in e.failing

\* The inventory provider behind EC2ClientAPI either applies the filters of a
\* request, as the cloud service does, or hands back all it holds whatever
\* the request asks for, as MockEC2Client does.
IgnoresFilters(e) == "filters" \in DOMAIN e /\ ~e.filters

DescribeInstances(e, stateName) ==
    IF Fails(e, Call("DescribeInstances", stateName))
    THEN [ok |-> FALSE, val |-> <<>>]
    ELSE [ok |-> TRUE,
          val |-> IF IgnoresFilters(e) THEN e.instances
                  ELSE SelectSeq(e.instances, LAMBDA i : i.state = stateName)]

DescribeVolumes(e, attachment) ==
    IF Fails(e, Call("DescribeVolumes", attachment))
    THEN [ok |-> FALSE, val |-> <<>>]
    ELSE [ok |-> TRUE,
          val |-> IF attachment = "all" \/ IgnoresFilters(e) THEN e.volumes
                  ELSE SelectSeq(e.volumes, LAMBDA v : v.attachedTo = attachment)]

IsRegionSupported(e) == e.regionSupported

GetVolumePrice(e, volumeType) ==
    IF ~IsRegionSupported(e) THEN Failed ELSE e.price[volumeType]

\* Hours of runtime PricingService assumes: 30 days.
HoursRunning == 720

\* EC2Pricing.CalculateInstanceSavings(region, instanceType, hoursRunning) over
\* the pricing data of the region: the delta toward the type's
\* RecommendedUpgrade, or toward its RecommendedDowngrade when that is larger.
\* Prices are in hundredths of a cent per hour.
EC2PricingCalculateInstanceSavings(pricing, instanceType, hoursRunning) ==
    IF ~pricing.regionPriced THEN Failed
    ELSE IF instanceType \notin DOMAIN pricing.types THEN Failed
    ELSE LET regionPricing == pricing.types
             instance == regionPricing[instanceType]
             upgrade == instance.RecommendedUpgrade
             downgrade == instance.RecommendedDowngrade
             savings ==
                 IF upgrade # "" /\ upgrade \in DOMAIN regionPricing
                 THEN (instance.PricePerHour - regionPricing[upgrade].PricePerHour)
                          * hoursRunning
                 ELSE 0
             downgradeSavings ==
                 IF downgrade # "" /\ downgrade \in DOMAIN regionPricing
                 THEN (instance.PricePerHour - regionPricing[downgrade].PricePerHour)
                          * hoursRunning
                 ELSE 0
         IN IF downgrade # "" /\ downgrade \in DOMAIN regionPricing
               /\ downgradeSavings > savings
            THEN Ok(downgradeSavings)
            ELSE Ok(savings)

\* PricingServiceAPI.CalculateInstanceSavings: the answer an implementation
\* gives for the current type, or, where the environment holds pricing
\* data, PricingService's computation, which passes only the current type on.
CalculateInstanceSavings(e, currentType, targetType) ==
    IF "onDemand" \in DOMAIN e
    THEN EC2PricingCalculateInstanceSavings(e.onDemand, currentType, HoursRunning)
    ELSE e.savings[currentType]

\* The units of money of an environment that make a cent: 100 where the
\* savings come from pricing data, the environment's own unit where its
\* prices are given in fractions of a cent, 1 where they are whole cents.
MoneyUnit(e) ==
    IF "onDemand" \in DOMAIN e THEN 100
    ELSE IF "unit" \in DOMAIN e THEN e.unit ELSE 1

\* The float64 of an amount of dollars a collaborator hands over: the one
\* nearest to the decimal the environment gives in its units of money.
Dollars(e, amount) == F64Ratio(amount, 100 * MoneyUnit(e))

\* What "$%.2f" prints of an amount, in cents: amount is the amount in the
\* units of the environment, float the float64 the code computed for it.
Cents(e, amount, float) == Printed(amount, MoneyUnit(e), 2, float)

\* hourlyDiff * float64(hoursRunning) toward a type of the pricing data, zero
\* toward a type that is not named or not priced.
HourlyDiffFloat(price, other, hoursRunning) ==
    F64Mul(F64Sub(F64Ratio(price, 10000), F64Ratio(other, 10000)), F64Int(hoursRunning))

DeltaFloat(regionPricing, instanceType, type, hoursRunning) ==
    IF type # "" /\ type \in DOMAIN regionPricing
    THEN HourlyDiffFloat(regionPricing[instanceType].PricePerHour,
                         regionPricing[type].PricePerHour, hoursRunning)
    ELSE F64Zero

\* if downgradeSavings > savings { savings = downgradeSavings }
LargerSavings(compared, downgradeSavings, savings) ==
    IF compared /\ F64Cmp(downgradeSavings, savings) > 0 THEN downgradeSavings ELSE savings

\* EC2Pricing.CalculateInstanceSavings as float64 computes it on the prices
\* of the pricing data.
EC2PricingSavingsFloat(pricing, instanceType, hoursRunning) ==
    LargerSavings(
        /\ pricing.types[instanceType].RecommendedDowngrade # ""
        /\ pricing.types[instanceType].RecommendedDowngrade \in DOMAIN pricing.types,
        DeltaFloat(pricing.types, instanceType,
                   pricing.types[instanceType].RecommendedDowngrade, hoursRunning),
        DeltaFloat(pricing.types, instanceType,
                   pricing.types[instanceType].RecommendedUpgrade, hoursRunning))

\* The float64 CalculateInstanceSavings answered for a type.
SavingsFloat(e, currentType) ==
    IF "onDemand" \in DOMAIN e
    THEN EC2PricingSavingsFloat(e.onDemand, currentType, HoursRunning)
    ELSE Dollars(e, e.savings[currentType].val)

(***************************************************************************)
(* EC2Blade.analyzeUnderutilizedInstances                                  *)
(***************************************************************************)
\* Variant: a zero delta is reported as well.
SavingsReportableFromZero(savings) == savings >= 0

SavingsReportable(savings) == savings > 0

\* targetType, ok := upgradeMap[instanceType]: a missing key yields "" and false.
UpgradeTarget(upgradeMap, instanceType) ==
    IF instanceType \in DOMAIN upgradeMap THEN upgradeMap[instanceType] ELSE ""

\* Variant: the ok flag of the map lookup is ignored.
UpgradeEligibleIgnoringOk(upgradeMap, instanceType) == TRUE

UpgradeEligible(upgradeMap, instanceType) == instanceType \in DOMAIN upgradeMap

RECURSIVE UnderutilizedLoop(_, _, _)
UnderutilizedLoop(e, insts, acc) ==
    IF insts = <<>> THEN acc
    ELSE LET instance == Head(insts)
             instanceType == instance.type
             instanceID == instance.id
         IN IF UpgradeEligible(instanceUpgrades, instanceType)
            THEN LET targetType == UpgradeTarget(instanceUpgrades, instanceType)
                     r == CalculateInstanceSavings(e, instanceType, targetType)
                     asked == [acc EXCEPT !.calls =
                                 Append(@, Call("CalculateInstanceSavings", instanceType))]
                 IN IF ~r.ok THEN UnderutilizedLoop(e, Tail(insts), asked)
                    ELSE IF SavingsReportable(r.val)
                    THEN UnderutilizedLoop(e, Tail(insts),
                           [asked EXCEPT
                              !.instanceSavings = Put(@, instanceID, r.val),
                              !.instanceRecommendations =
                                  Put(@, instanceID, <<instanceType, targetType>>),
                              !.totalSavings = @ + r.val])
                    ELSE UnderutilizedLoop(e, Tail(insts), asked)
            ELSE UnderutilizedLoop(e, Tail(insts), acc)

UnderutilizedScan(e, insts) ==
    UnderutilizedLoop(e, insts,
        [instanceSavings |-> EmptyMap, instanceRecommendations |-> EmptyMap,
         totalSavings |-> 0, calls |-> <<>>])

\* Variant: every line carries the total of the check instead of its own savings.
UnderutilizedRecommendationsWithTotal(e, scan, order) ==
    IF Cardinality(DOMAIN scan.instanceSavings) > 0
    THEN <<Line("UnderutilizedHeader", "", "", "", Cardinality(DOMAIN scan.instanceSavings), 0)>>
         \o [k \in 1..Len(order) |->
               Line("Upgrade", order[k], scan.instanceRecommendations[order[k]][1],
                    scan.instanceRecommendations[order[k]][2], 0,
                    Cents(e, scan.totalSavings, Dollars(e, scan.totalSavings)))]
    ELSE <<>>

\* The report loop ranges over a Go map: order is the iteration order the
\* runtime picked for this call.  A line prints the savings of its instance
\* to the cent; the total of the check keeps what was added.
UnderutilizedRecommendations(e, scan, order) ==
    IF Cardinality(DOMAIN scan.instanceSavings) > 0
    THEN <<Line("UnderutilizedHeader", "", "", "", Cardinality(DOMAIN scan.instanceSavings), 0)>>
         \o [k \in 1..Len(order) |->
               Line("Upgrade", order[k], scan.instanceRecommendations[order[k]][1],
                    scan.instanceRecommendations[order[k]][2], 0,
                    Cents(e, scan.instanceSavings[order[k]],
                          SavingsFloat(e, scan.instanceRecommendations[order[k]][1])))]
    ELSE <<>>

analyzeUnderutilizedInstances(e, order) ==
    LET listing == DescribeInstances(e, "running")
        scan == UnderutilizedScan(e, listing.val)
    IN IF ~listing.ok
       THEN CheckOutcome(0, <<>>, TRUE, <<Call("DescribeInstances", "running")>>)
       ELSE CheckOutcome(scan.totalSavings, UnderutilizedRecommendations(e, scan, order), FALSE,
                         <<Call("DescribeInstances", "running")>> \o scan.calls)

UnderutilizedOrders(e) ==
    LET listing == DescribeInstances(e, "running")
    IN IF listing.ok THEN Orderings(DOMAIN UnderutilizedScan(e, listing.val).instanceSavings)
       ELSE {<<>>}

(***************************************************************************)
(* EC2Blade.analyzeStoppedInstances                                        *)
(***************************************************************************)
\* Variant: the hours of a month are multiplied in, as for unattached volumes.
AttachedVolumeCostByHours(price, size) == price * size * 24 * 30

AttachedVolumeCost(price, size) == price * size

\* monthlyCost := price * float64(*volume.Size)
AttachedVolumeCostFloat(e, price, size) == F64Mul(Dollars(e, price), F64Int(size))

\* potentialSavings as float64 accumulates it: terms holds, for each stopped
\* instance counted, the price and size of each volume priced; the costs of
\* an instance are added up from zero, and each such sum to the total.
StoppedSavingsFloat(e, terms) ==
    F64Sum(F64Zero,
        [i \in 1..Len(terms) |->
            F64Sum(F64Zero,
                [j \in 1..Len(terms[i]) |->
                    AttachedVolumeCostFloat(e, terms[i][j][1], terms[i][j][2])])])

RECURSIVE StoppedVolumesLoop(_, _, _, _)
StoppedVolumesLoop(e, vols, instanceID, acc) ==
    IF vols = <<>> THEN acc
    ELSE LET volume == Head(vols)
             asked1 == [acc EXCEPT !.calls = Append(@, Call("IsRegionSupported", "region"))]
             asked2 == [asked1 EXCEPT !.calls = Append(@, Call("GetVolumePrice", volume.type))]
             price == GetVolumePrice(e, volume.type)
             monthlyCost == AttachedVolumeCost(price.val, volume.size[1])
            \* *volume.Size of the log line, ahead of the pricing requests
         IN IF volume.size = <<>> THEN [acc EXCEPT !.panic = TRUE]
            ELSE IF ~IsRegionSupported(e)
            THEN StoppedVolumesLoop(e, Tail(vols), instanceID, asked1)
            ELSE IF ~price.ok THEN StoppedVolumesLoop(e, Tail(vols), instanceID, asked2)
            ELSE StoppedVolumesLoop(e, Tail(vols), instanceID,
                   [asked2 EXCEPT
                      !.instanceVolumeCost = @ + monthlyCost,
                      !.priced = Append(@, <<price.val, volume.size[1]>>),
                      !.volumeDetails = Append(@,
                          Line("AttachedVolume", instanceID, volume.type, "",
                               volume.size[1],
                               Cents(e, monthlyCost,
                                     AttachedVolumeCostFloat(e, price.val, volume.size[1]))))])

RECURSIVE StoppedLoop(_, _, _)
StoppedLoop(e, insts, acc) ==
    IF insts = <<>> THEN acc
    ELSE LET instanceID == Head(insts).id
             volumesOutput == DescribeVolumes(e, instanceID)
             asked == [acc EXCEPT !.calls = Append(@, Call("DescribeVolumes", instanceID))]
             inner == StoppedVolumesLoop(e, volumesOutput.val, instanceID,
                         [instanceVolumeCost |-> 0, priced |-> <<>>,
                          volumeDetails |-> asked.volumeDetails,
                          calls |-> asked.calls, panic |-> FALSE])
         IN IF ~volumesOutput.ok THEN StoppedLoop(e, Tail(insts), asked)
            ELSE IF inner.panic THEN [asked EXCEPT !.calls = inner.calls, !.panic = TRUE]
            ELSE StoppedLoop(e, Tail(insts),
                   [stoppedInstances |-> Append(acc.stoppedInstances, instanceID),
                    potentialSavings |-> acc.potentialSavings + inner.instanceVolumeCost,
                    terms |-> Append(acc.terms, inner.priced),
                    volumeDetails |-> inner.volumeDetails,
                    calls |-> inner.calls, panic |-> FALSE])

StoppedAdviceThree ==
    <<Line("ConsiderActions", "", "", "", 0, 0),
      Line("TerminateLongStopped", "", "", "", 0, 0),
      Line("SnapshotBeforeTermination", "", "", "", 0, 0),
      Line("AutomateCleanup", "", "", "", 0, 0)>>

StoppedAdvice ==
    <<Line("ConsiderActions", "", "", "", 0, 0),
      Line("TerminateLongStopped", "", "", "", 0, 0),
      Line("SnapshotBeforeTermination", "", "", "", 0, 0),
      Line("AutomateCleanup", "", "", "", 0, 0),
      Line("RecreateFromSnapshots", "", "", "", 0, 0)>>

analyzeStoppedInstances(e) ==
    LET listing == DescribeInstances(e, "stopped")
        scan == StoppedLoop(e, listing.val,
                   [stoppedInstances |-> <<>>, potentialSavings |-> 0, terms |-> <<>>,
                    volumeDetails |-> <<>>, calls |-> <<>>, panic |-> FALSE])
        recommendations ==
            IF Len(scan.stoppedInstances) > 0
            THEN <<Line("StoppedHeader", "", "", "", Len(scan.stoppedInstances), 0)>>
                 \o scan.volumeDetails
                 \o <<Line("StoppedTotal", "", "", "", 0,
                           Cents(e, scan.potentialSavings, StoppedSavingsFloat(e, scan.terms)))>>
                 \o StoppedAdvice
            ELSE <<>>
    IN IF ~listing.ok
       THEN CheckOutcome(0, <<>>, TRUE, <<Call("DescribeInstances", "stopped")>>)
       ELSE IF scan.panic
       THEN Crashed(<<Call("DescribeInstances", "stopped")>> \o scan.calls)
       ELSE CheckOutcome(scan.potentialSavings, recommendations, FALSE,
                         <<Call("DescribeInstances", "stopped")>> \o scan.calls)

(***************************************************************************)
(* EC2Blade.analyzeUnattachedVolumes                                       *)
(***************************************************************************)
UnattachedVolumeCost(price, size) == price * size * 24 * 30

\* monthlyCost := price * float64(*volume.Size) * 24 * 30, product by product
UnattachedVolumeCostFloat(e, price, size) ==
    F64Mul(F64Mul(F64Mul(Dollars(e, price), F64Int(size)), F64Int(24)), F64Int(30))

RECURSIVE UnattachedLoop(_, _, _)
UnattachedLoop(e, vols, acc) ==
    IF vols = <<>> THEN acc
    ELSE LET volume == Head(vols)
             asked1 == [acc EXCEPT !.calls = Append(@, Call("IsRegionSupported", "region"))]
             asked2 == [asked1 EXCEPT !.calls = Append(@, Call("GetVolumePrice", volume.type))]
             price == GetVolumePrice(e, volume.type)
             monthlyCost == UnattachedVolumeCost(price.val, volume.size[1])
         IN IF volume.state # "available" THEN UnattachedLoop(e, Tail(vols), acc)
            \* *volume.Size of the log line, ahead of the pricing requests
            ELSE IF volume.size = <<>> THEN Crashed(acc.calls)
            ELSE IF ~IsRegionSupported(e)
            THEN UnattachedLoop(e, Tail(vols),
                   [asked1 EXCEPT !.recs = Append(@,
                       Line("UnattachedUnpriced", volume.id, "region", "", 0, 0))])
            ELSE IF ~price.ok THEN UnattachedLoop(e, Tail(vols), asked2)
            ELSE UnattachedLoop(e, Tail(vols),
                   [asked2 EXCEPT
                      !.savings = @ + monthlyCost,
                      !.recs = Append(@,
                          Line("UnattachedVolume", volume.id, volume.type, "",
                               volume.size[1],
                               Cents(e, monthlyCost,
                                     UnattachedVolumeCostFloat(e, price.val, volume.size[1]))))])

analyzeUnattachedVolumes(e, vols) ==
    UnattachedLoop(e, vols, CheckOutcome(0, <<>>, FALSE, <<>>))

(***************************************************************************)
(* EC2Blade.Execute                                                        *)
(***************************************************************************)
\* Variant: a failed check discards what the earlier checks contributed.
MergeCheckResetsOnError(res, outcome) ==
    IF outcome.err THEN [res EXCEPT !.PotentialSavings = 0, !.Recommendations = <<>>]
    ELSE [res EXCEPT !.PotentialSavings = @ + outcome.savings,
                     !.Recommendations = @ \o outcome.recs]

MergeCheck(res, outcome) ==
    IF outcome.err THEN res
    ELSE [res EXCEPT !.PotentialSavings = @ + outcome.savings,
                     !.Recommendations = @ \o outcome.recs]

NoChecks == [c \in {} |-> CheckOutcome(0, <<>>, FALSE, <<>>)]

EC2DescribeVolumes ==
    /\ env.blade = "EC2"
    /\ pc = "start"
    /\ LET out == DescribeVolumes(env, "all")
       IN /\ calls' = Append(calls, Call("DescribeVolumes", "all"))
          /\ IF ~out.ok
             THEN /\ result' = NilResult
                  /\ err' = "failed to describe volumes"
                  /\ pc' = "done"
                  /\ volumes' = <<>>
             ELSE /\ result' = NewBladeResult("EC2")
                  /\ err' = ""
                  /\ pc' = "underutilized"
                  /\ volumes' = out.val
    /\ UNCHANGED <<env, checks, instances, snapshots, idx, totalPotentialSavings, runs, prev, cacheVars, blades>>

\* Variant: the error of a check is returned to the caller.
EC2CheckFatal(at, name, outcome, next) ==
    /\ env.blade = "EC2"
    /\ pc = at
    /\ checks' = Put(checks, name, outcome)
    /\ calls' = calls \o outcome.calls
    /\ IF outcome.err
       THEN result' = NilResult /\ err' = "failed to analyze" /\ pc' = "done"
       ELSE result' = MergeCheck(result, outcome) /\ err' = err /\ pc' = next
    /\ UNCHANGED <<env, volumes, instances, snapshots, idx, totalPotentialSavings,
                   runs, prev, cacheVars, blades>>

\* Variant: the check applies its own advice and deletes the unattached volumes.
EC2CheckRemediates(at, name, outcome, next) ==
    /\ env.blade = "EC2"
    /\ pc = at
    /\ result' = MergeCheck(result, outcome)
    /\ checks' = Put(checks, name, outcome)
    /\ calls' = calls \o outcome.calls
                  \o [k \in 1..Len(SelectSeq(env.volumes, LAMBDA v : v.state = "available")) |->
                        Call("DeleteVolume", "all")]
    /\ env' = [env EXCEPT !.volumes = SelectSeq(@, LAMBDA v : v.state # "available")]
    /\ pc' = next
    /\ UNCHANGED <<err, volumes, instances, snapshots, idx, totalPotentialSavings,
                   runs, prev, cacheVars, blades>>

\* One check of Execute: what it returns is merged or, on an error, logged.
\* Nothing recovers a panic of the check: it ends the program.
EC2Check(at, name, outcome, next) ==
    /\ env.blade = "EC2"
    /\ pc = at
    /\ calls' = calls \o outcome.calls
    /\ IF outcome.panic
       THEN result' = result /\ checks' = checks /\ pc' = "panic"
       ELSE /\ result' = MergeCheck(result, outcome)
            /\ checks' = Put(checks, name, outcome)
            /\ pc' = next
    /\ UNCHANGED <<env, err, volumes, instances, snapshots, idx, totalPotentialSavings,
                   runs, prev, cacheVars, blades>>

EC2Underutilized ==
    /\ env.blade = "EC2"
    /\ pc = "underutilized"
    /\ \E order \in UnderutilizedOrders(env) :
        EC2Check("underutilized", "underutilized", analyzeUnderutilizedInstances(env, order), "stopped")

EC2Stopped ==
    /\ env.blade = "EC2"
    /\ EC2Check("stopped", "stopped", analyzeStoppedInstances(env), "unattached")

EC2Unattached ==
    /\ env.blade = "EC2"
    /\ EC2Check("unattached", "unattached", analyzeUnattachedVolumes(env, volumes), "done")

(***************************************************************************)
(* RDSBlade: collaborators                                                 *)
(***************************************************************************)
DescribeDBInstances(e) ==
    IF Fails(e, Call("DescribeDBInstances", "all"))
    THEN [ok |-> FALSE, val |-> <<>>]
    ELSE [ok |-> TRUE, val |-> e.dbInstances]

\* On failure the provider hands back a nil output next to the error.
DescribeDBSnapshots(e) ==
    IF Fails(e, Call("DescribeDBSnapshots", "all"))
    THEN [isNil |-> TRUE, DBSnapshots |-> <<>>]
    ELSE [isNil |-> FALSE, DBSnapshots |-> e.dbSnapshots]

DescribeReservedDBInstances(e) ==
    IF Fails(e, Call("DescribeReservedDBInstances", "all"))
    THEN [ok |-> FALSE, val |-> <<>>]
    ELSE [ok |-> TRUE, val |-> e.reserved]

GetMetricData(e, instanceID) == e.metricData[instanceID]

(***************************************************************************)
(* RDSBlade.getInstanceMetrics.  Units: storage in GiB, swap in MiB,       *)
(* latency in ms, network in MiB/s, where the code has bytes and seconds.  *)
(* A metric is a record: num/den (den > 0) is the mean computed without    *)
(* rounding, in the units above; id and values are the samples it was      *)
(* taken from, from which the float64 the code holds is computed, sample   *)
(* by sample, wherever the exact mean leaves a comparison or a print       *)
(* undecided.                                                              *)
(***************************************************************************)
RECURSIVE SumValues(_)
SumValues(values) == IF values = <<>> THEN 0 ELSE Head(values) + SumValues(Tail(values))

\* avg := sum / float64(len(result.Values))
Average(id, values) ==
    [num |-> SumValues(values), den |-> Len(values), id |-> id, values |-> values]

\* The float64 of v units of a metric as the code counts it: bytes for
\* storage, swap and network, seconds for a latency.
F64Sample(id, v) ==
    CASE id \in {"read_latency", "write_latency"} -> F64Ratio(v, 1000)
      [] id = "storage" -> F64Scale(F64Int(v), 30)
      [] id \in {"swap_usage", "network_receive", "network_transmit"} -> F64Scale(F64Int(v), 20)
      [] OTHER -> F64Int(v)

\* var sum float64; sum += v for each value.
SummedFloat(id, samples) ==
    F64Sum(F64Zero, [k \in 1..Len(samples) |-> F64Sample(id, samples[k])])

\* avg := sum / float64(len(values)).
\* The samples of a latency, thousandths of a second, are added one by one,
\* each addition rounding.  The samples of the other metrics are whole
\* numbers, or whole numbers times a power of two, far below 2^53: float64
\* adds those without rounding, and their sum is the float64 of the exact sum.
AverageFloat(id, values) ==
    F64Div(SummedFloat(id, IF id \in {"read_latency", "write_latency"} THEN values
                           ELSE <<SumValues(values)>>),
           F64Int(Len(values)))

\* ((totalStorage - avg) / totalStorage) * 100
StorageShareFloat(totalStorage, avg) ==
    F64Mul(F64Div(F64Sub(totalStorage, avg), totalStorage), F64Int(100))

\* The float64 of a field of InstanceMetrics, avg being the mean of its
\* samples: zero where no value came, the mean, or for the storage, whose
\* samples are the free space, the share of the allocation in use.
FieldFloat(metric, avg) ==
    IF metric.values = <<>> THEN F64Zero
    ELSE IF metric.id = "storage"
    THEN StorageShareFloat(F64Scale(F64Int(metric.allocated), 30), avg)
    ELSE avg

MetricFloat(metric) == FieldFloat(metric, AverageFloat(metric.id, metric.values))

\* The limit a field is compared with, in float64: a share for the storage
\* utilization, else so many units of the metric.
LimitFloat(metric, limit) ==
    IF metric.id = "storage" THEN F64Int(limit) ELSE F64Sample(metric.id, limit)

\* In what follows m is an InstanceMetrics, the record getInstanceMetrics
\* returns: m[field] is the metric of a field and m.Float[id] the float64
\* the field of the metric id holds.

\* m.field < limit and m.field > limit, for a whole limit: the exact mean
\* decides unless it is the limit itself, where the float64 values do.
Below(m, field, limit) ==
    IF m[field].num = limit * m[field].den
    THEN F64Cmp(m.Float[m[field].id], LimitFloat(m[field], limit)) < 0
    ELSE m[field].num < limit * m[field].den

Above(m, field, limit) ==
    IF m[field].num = limit * m[field].den
    THEN F64Cmp(m.Float[m[field].id], LimitFloat(m[field], limit)) > 0
    ELSE m[field].num > limit * m[field].den

\* connections < max * share and connections > max * share, the share in
\* tenths (MaxConnections*0.4, MaxConnections*0.7): the product is a float64
\* and need not be the tenths of max.
MaxShareFloat(max, tenths) == F64Mul(F64Int(max), F64Ratio(tenths, 10))

BelowShare(m, field, max, tenths) ==
    IF m[field].num * 10 = max * tenths * m[field].den
    THEN F64Cmp(m.Float[m[field].id], MaxShareFloat(max, tenths)) < 0
    ELSE m[field].num * 10 < max * tenths * m[field].den

AboveShare(m, field, max, tenths) ==
    IF m[field].num * 10 = max * tenths * m[field].den
    THEN F64Cmp(m.Float[m[field].id], MaxShareFloat(max, tenths)) > 0
    ELSE m[field].num * 10 > max * tenths * m[field].den

\* metrics.ReadIOPS > (metrics.WriteIOPS * 4)
AboveTimes(m, field, other, times) ==
    IF m[field].num * m[other].den = m[other].num * times * m[field].den
    THEN F64Cmp(m.Float[m[field].id], F64Mul(m.Float[m[other].id], F64Int(times))) > 0
    ELSE m[field].num * m[other].den > m[other].num * times * m[field].den

\* The float64 a line prints of a field: a latency times 1000, swap and
\* network divided by 1024*1024, the others as they are.
ShownFloat(id, float) ==
    CASE id \in {"read_latency", "write_latency"} -> F64Mul(float, F64Int(1000))
      [] id \in {"swap_usage", "network_receive", "network_transmit"} ->
             F64Scale(float, -20)
      [] OTHER -> float

\* What "%.1f" and "%.2f" print of a field, in tenths and in hundredths.
Tenths(m, field) ==
    Printed(m[field].num * 10, m[field].den, 1,
            ShownFloat(m[field].id, m.Float[m[field].id]))

Hundredths(m, field) ==
    Printed(m[field].num * 100, m[field].den, 2,
            ShownFloat(m[field].id, m.Float[m[field].id]))

\* Variant: a metric without samples counts as 100.
MetricValueMissingAsFull(data, id) ==
    IF id \in DOMAIN data /\ Len(data[id]) > 0 THEN Average(id, data[id])
    ELSE Average(id, <<100>>)

\* A result without values is passed over and leaves the field at zero.
MetricValue(data, id) ==
    IF id \in DOMAIN data /\ Len(data[id]) > 0 THEN Average(id, data[id])
    ELSE [num |-> 0, den |-> 1, id |-> id, values |-> <<>>]

MaxConnectionsOf(class) ==
    CASE class = Nil -> 0
      [] class = "db.t3.micro" -> 66
      [] class = "db.t3.small" -> 150
      [] class = "db.t3.medium" -> 312
      [] OTHER -> 5000

\* ((totalStorage - avg) / totalStorage) * 100, avg being the free space.
StorageUtilizationOf(data, allocatedStorage) ==
    IF "storage" \in DOMAIN data /\ Len(data["storage"]) > 0
    THEN LET avg == Average("storage", data["storage"])
         IN [num |-> (allocatedStorage * avg.den - avg.num) * 100,
             den |-> allocatedStorage * avg.den,
             id |-> "storage", values |-> avg.values, allocated |-> allocatedStorage]
    ELSE [num |-> 0, den |-> 1, id |-> "storage", values |-> <<>>,
          allocated |-> allocatedStorage]

\* The ids of the metric queries whose fields Execute reads (FreeableMemory
\* and ReplicaLag are filled and never read).
MetricIds ==
    {"cpu", "connections", "storage", "read_iops", "write_iops", "read_latency",
     "write_latency", "swap_usage", "network_receive", "network_transmit",
     "burst_balance", "disk_queue_depth", "deadlocks", "blocked_transactions"}

\* The float64 values the fields hold after the loop over the results.
FieldFloats(data, allocatedStorage) ==
    [id \in MetricIds |->
        MetricFloat(IF id = "storage" THEN StorageUtilizationOf(data, allocatedStorage)
                    ELSE MetricValue(data, id))]

getInstanceMetrics(e, instance) ==
    LET output == GetMetricData(e, instance.id)
        data == output.val
    IN [ok |-> output.ok,
        val |-> [Float |-> FieldFloats(data, instance.allocatedStorage),
                 CPUUtilization |-> MetricValue(data, "cpu"),
                 ConnectionCount |-> MetricValue(data, "connections"),
                 MaxConnections |-> MaxConnectionsOf(instance.class),
                 StorageUtilization |-> StorageUtilizationOf(data, instance.allocatedStorage),
                 ReadIOPS |-> MetricValue(data, "read_iops"),
                 WriteIOPS |-> MetricValue(data, "write_iops"),
                 ReadLatency |-> MetricValue(data, "read_latency"),
                 WriteLatency |-> MetricValue(data, "write_latency"),
                 SwapUsage |-> MetricValue(data, "swap_usage"),
                 NetworkReceive |-> MetricValue(data, "network_receive"),
                 NetworkTransmit |-> MetricValue(data, "network_transmit"),
                 BackupRetention |-> IF instance.backupRetention # <<>>
                                     THEN instance.backupRetention[1] ELSE 0,
                 BurstBalance |-> MetricValue(data, "burst_balance"),
                 DiskQueueDepth |-> MetricValue(data, "disk_queue_depth"),
                 DeadlockCount |-> MetricValue(data, "deadlocks"),
                 BlockedTransactions |-> MetricValue(data, "blocked_transactions")]]

(***************************************************************************)
(* RDSBlade.Execute: the battery of heuristics for one instance            *)
(***************************************************************************)
When(cond, line) == IF cond THEN <<line>> ELSE <<>>

\* Variant: only the plain "aurora" engine is recognised.
IsAuroraExact(engine) == engine = "aurora"

IsAurora(engine) == engine \in {"aurora", "aurora-mysql", "aurora-postgresql"}

\* Variant: every answered delta is accumulated, only positive ones are reported.
RDSUpgradeCountsAll(e, instance) ==
    IF instance.class # Nil /\ UpgradeEligible(rdsInstanceUpgrades, instance.class)
    THEN LET targetType == UpgradeTarget(rdsInstanceUpgrades, instance.class)
             r == CalculateInstanceSavings(e, instance.class, targetType)
             asked == <<Call("CalculateInstanceSavings", instance.class)>>
         IN IF r.ok
            THEN [savings |-> r.val,
                  recs |-> When(r.val > 0,
                                Line("RdsUpgrade", "", instance.class, targetType, 0,
                                     Cents(e, r.val, SavingsFloat(e, instance.class)))),
                  calls |-> asked]
            ELSE [savings |-> 0, recs |-> <<>>, calls |-> asked]
    ELSE [savings |-> 0, recs |-> <<>>, calls |-> <<>>]

\* 1. Instance Type Optimization
RDSUpgrade(e, instance) ==
    IF instance.class # Nil /\ UpgradeEligible(rdsInstanceUpgrades, instance.class)
    THEN LET targetType == UpgradeTarget(rdsInstanceUpgrades, instance.class)
             r == CalculateInstanceSavings(e, instance.class, targetType)
             asked == <<Call("CalculateInstanceSavings", instance.class)>>
         IN IF r.ok /\ SavingsReportable(r.val)
            THEN [savings |-> r.val,
                  recs |-> <<Line("RdsUpgrade", "", instance.class, targetType, 0,
                                  Cents(e, r.val, SavingsFloat(e, instance.class)))>>,
                  calls |-> asked]
            ELSE [savings |-> 0, recs |-> <<>>, calls |-> asked]
    ELSE [savings |-> 0, recs |-> <<>>, calls |-> <<>>]

SnapshotCount(snaps, instanceID) ==
    Len(SelectSeq(snaps, LAMBDA sn : sn.dbInstance = instanceID))

\* int(metric) of "%d": the whole part.  A mean of whole samples that is not
\* whole is farther from every whole number than float64 rounds it.
Whole(m, field) == m[field].num \div m[field].den

\* metrics.CPUUtilization < 40 && metrics.ConnectionCount < metrics.MaxConnections*0.4
IsLowUtilization(m) ==
    /\ Below(m, "CPUUtilization", 40)
    /\ BelowShare(m, "ConnectionCount", m.MaxConnections, 4)

\* metrics.StorageUtilization < 50 && *instance.AllocatedStorage > 100
IsStorageReducible(instance, m) ==
    Below(m, "StorageUtilization", 50) /\ instance.allocatedStorage > 100

\* instance.MultiAZ != nil && *instance.MultiAZ
IsMultiAZ(instance) == instance.multiAZ # <<>> /\ instance.multiAZ[1]

\* 2. to 10. of the battery, in the order Execute appends them.  The n of a
\* line is the first number its format string prints: the CPU share in tenths
\* ("%.1f"), a "%.2f" metric in hundredths, a "%d" count as it is.
Heuristics(instance, m, snapshotCount) ==
    When(IsLowUtilization(m),
         Line("LowUtilization", "", "", "", Tenths(m, "CPUUtilization"), 0))
    \o When(IsStorageReducible(instance, m),
            Line("ReduceStorage", "", "", "", instance.allocatedStorage, 0))
    \o When(Above(m, "SwapUsage", 50), Line("HighSwap", "", "", "", Hundredths(m, "SwapUsage"), 0))
    \o When(Above(m, "DiskQueueDepth", 1),
            Line("HighQueueDepth", "", "", "", Hundredths(m, "DiskQueueDepth"), 0))
    \o When(Above(m, "ReadLatency", 20) \/ Above(m, "WriteLatency", 20),
            Line("HighLatency", "", "", "", Hundredths(m, "ReadLatency"), 0))
    \o When(Above(m, "NetworkReceive", 100) \/ Above(m, "NetworkTransmit", 100),
            Line("HighNetwork", "", "", "", Hundredths(m, "NetworkReceive"), 0))
    \o (IF IsMultiAZ(instance)
        THEN When(AboveTimes(m, "ReadIOPS", "WriteIOPS", 4),
                  Line("UseReadReplicas", "", "", "", 0, 0))
        ELSE When(\/ Above(m, "WriteIOPS", 1000)
                  \/ AboveShare(m, "ConnectionCount", m.MaxConnections, 7),
                  Line("EnableMultiAZ", "", "", "", 0, 0)))
    \o When(m.BackupRetention < 7,
            Line("LowBackupRetention", "", "", "", m.BackupRetention, 0))
    \o When(snapshotCount > 30, Line("ManySnapshots", "", "", "", snapshotCount, 0))
    \o (CASE instance.engine \in {"mysql", "mariadb"} ->
               When(Above(m, "DeadlockCount", 0),
                    Line("Deadlocks", "", "", "", Whole(m, "DeadlockCount"), 0))
          [] instance.engine = "postgres" ->
               When(Above(m, "BlockedTransactions", 5),
                    Line("BlockedTransactions", "", "", "",
                         Hundredths(m, "BlockedTransactions"), 0))
          [] OTHER -> <<>>)
    \o When(Below(m, "BurstBalance", 20),
            Line("LowBurstBalance", "", "", "", Hundredths(m, "BurstBalance"), 0))

\* Variant: the header follows the suggestions of its instance.
InstanceReportHeaderLast(instanceID, instanceRecommendations) ==
    IF Len(instanceRecommendations) > 0
    THEN instanceRecommendations \o <<Line("InstanceHeader", instanceID, "", "", 0, 0)>>
    ELSE <<>>

\* Variant: the battery stops at the first suggestion.
InstanceReportFirstOnly(instanceID, instanceRecommendations) ==
    IF Len(instanceRecommendations) > 0
    THEN <<Line("InstanceHeader", instanceID, "", "", 0, 0), instanceRecommendations[1]>>
    ELSE <<>>

InstanceReport(instanceID, instanceRecommendations) ==
    IF Len(instanceRecommendations) > 0
    THEN <<Line("InstanceHeader", instanceID, "", "", 0, 0)>> \o instanceRecommendations
    ELSE <<>>

\* Variant: a failed metrics request is issued a second time.
AnalyzeDBInstanceRetrying(e, instance, snaps) ==
    LET metrics == getInstanceMetrics(e, instance)
        upgrade == RDSUpgrade(e, instance)
        asked == <<Call("GetMetricData", instance.id)>>
    IN IF IsAurora(instance.engine)
       THEN [status |-> "skipped", savings |-> 0, recs |-> <<>>, calls |-> <<>>]
       ELSE IF ~metrics.ok
       THEN [status |-> "skipped", savings |-> 0, recs |-> <<>>, calls |-> asked \o asked]
       ELSE IF snaps.isNil
       THEN [status |-> "panic", savings |-> 0, recs |-> <<>>,
             calls |-> asked \o upgrade.calls]
       ELSE [status |-> "analyzed", savings |-> upgrade.savings,
             recs |-> InstanceReport(instance.id,
                         upgrade.recs \o Heuristics(instance, metrics.val,
                                            SnapshotCount(snaps.DBSnapshots, instance.id))),
             calls |-> asked \o upgrade.calls]

\* One pass of the loop body: what it appends, what it adds, the requests it
\* issues and how it ends (skipped, analyzed, or a nil dereference of the
\* snapshot listing).
\* metrics is what getInstanceMetrics returned, upgrade the outcome of the
\* first check of the battery and asked the metrics request.
LoopBody(instance, snaps, metrics, upgrade, asked) ==
    IF IsAurora(instance.engine)
    THEN [status |-> "skipped", savings |-> 0, recs |-> <<>>, calls |-> <<>>]
    ELSE IF ~metrics.ok
    THEN [status |-> "skipped", savings |-> 0, recs |-> <<>>, calls |-> asked]
    ELSE IF snaps.isNil
    THEN [status |-> "panic", savings |-> 0, recs |-> <<>>,
          calls |-> asked \o upgrade.calls]
    ELSE [status |-> "analyzed", savings |-> upgrade.savings,
          recs |-> InstanceReport(instance.id,
                      upgrade.recs \o Heuristics(instance, metrics.val,
                                         SnapshotCount(snaps.DBSnapshots, instance.id))),
          calls |-> asked \o upgrade.calls]

AnalyzeDBInstance(e, instance, snaps) ==
    LoopBody(instance, snaps, getInstanceMetrics(e, instance), RDSUpgrade(e, instance),
             <<Call("GetMetricData", instance.id)>>)

\* 11. Reserved Instance Analysis
ActiveReserved(reservedList) == Len(SelectSeq(reservedList, LAMBDA ri : ri.state = "active"))

\* Variant: a coverage over no instance at all counts as low.
CoverageLowWithoutInstances(activeReserved, total) ==
    total = 0 \/ activeReserved * 100 < 80 * total

\* Variant: a coverage of exactly 80 counts as low.
CoverageLowInclusive(activeReserved, total) ==
    total # 0 /\ activeReserved * 100 <= 80 * total

\* coverage := float64(activeReserved) / float64(len(instances.DBInstances)) * 100
CoverageFloat(activeReserved, total) ==
    F64Mul(F64Div(F64Int(activeReserved), F64Int(total)), F64Int(100))

\* coverage < 80 on float64: a zero denominator gives NaN or +Inf, never
\* below; a share that is 80 exactly is decided on the float64.
CoverageLow(activeReserved, total) ==
    /\ total # 0
    /\ IF activeReserved * 100 = 80 * total
       THEN F64Cmp(CoverageFloat(activeReserved, total), F64Int(80)) < 0
       ELSE activeReserved * 100 < 80 * total

\* Tenths of a percent as "%.1f" prints them; -1 stands for NaN or +Inf.
CoverageTenths(activeReserved, total) ==
    IF total = 0 THEN -1
    ELSE Printed(activeReserved * 1000, total, 1, CoverageFloat(activeReserved, total))

\* totalPotentialSavings as float64 accumulates it: instanceSavings of each
\* pass, zero or the savings of its upgrade, added in the order of the listing.
TotalSavingsFloat(e, insts, snaps) ==
    F64Sum(F64Zero,
        [i \in 1..Len(insts) |->
            IF AnalyzeDBInstance(e, insts[i], snaps).savings > 0
            THEN SavingsFloat(e, insts[i].class) ELSE F64Zero])

\* Variant: a failed reservation listing leaves the result as it is.
FinishResultSkipsTotals(e, res, total, float, instanceCount) ==
    LET reserved == DescribeReservedDBInstances(e)
        activeReserved == ActiveReserved(reserved.val)
    IN IF ~reserved.ok THEN res
       ELSE [res EXCEPT
               !.PotentialSavings = total,
               !.Details = Put(Put(@, "Reserved Instance Coverage",
                                   CoverageTenths(activeReserved, instanceCount)),
                               "Total Monthly Savings", Cents(e, total, float)),
               !.Recommendations =
                   @ \o When(CoverageLow(activeReserved, instanceCount),
                             Line("LowCoverage", "", "", "",
                                  CoverageTenths(activeReserved, instanceCount), 0))]

\* The tail of Execute: coverage, then the totals; float is the float64
\* of the total.
FinishResult(e, res, total, float, instanceCount) ==
    LET reserved == DescribeReservedDBInstances(e)
        activeReserved == ActiveReserved(reserved.val)
        covered ==
            IF ~reserved.ok THEN res
            ELSE [res EXCEPT
                    !.Details = Put(@, "Reserved Instance Coverage",
                                    CoverageTenths(activeReserved, instanceCount)),
                    !.Recommendations =
                        @ \o When(CoverageLow(activeReserved, instanceCount),
                                  Line("LowCoverage", "", "", "",
                                       CoverageTenths(activeReserved, instanceCount), 0))]
    IN [covered EXCEPT
          !.PotentialSavings = total,
          !.Details = Put(@, "Total Monthly Savings", Cents(e, total, float))]

(***************************************************************************)
(* RDSBlade.Execute                                                        *)
(***************************************************************************)
\* Variant: a failed instance listing is logged and the analysis goes on.
RDSDescribeDBInstancesLogsOnly ==
    /\ env.blade = "RDS"
    /\ pc = "start"
    /\ calls' = Append(calls, Call("DescribeDBInstances", "all"))
    /\ result' = NewBladeResult("RDS")
    /\ err' = ""
    /\ pc' = "snapshots"
    /\ instances' = DescribeDBInstances(env).val
    /\ UNCHANGED <<env, volumes, checks, snapshots, idx, totalPotentialSavings, runs, prev, cacheVars, blades>>

RDSDescribeDBInstances ==
    /\ env.blade = "RDS"
    /\ pc = "start"
    /\ LET out == DescribeDBInstances(env)
       IN /\ calls' = Append(calls, Call("DescribeDBInstances", "all"))
          /\ IF ~out.ok
             THEN /\ result' = NilResult
                  /\ err' = "failed to describe DB instances"
                  /\ pc' = "done"
             ELSE /\ result' = NewBladeResult("RDS")
                  /\ err' = ""
                  /\ pc' = "snapshots"
          /\ instances' = out.val
    /\ UNCHANGED <<env, volumes, checks, snapshots, idx, totalPotentialSavings, runs, prev, cacheVars, blades>>

RDSDescribeDBSnapshots ==
    /\ env.blade = "RDS"
    /\ pc = "snapshots"
    /\ calls' = Append(calls, Call("DescribeDBSnapshots", "all"))
    /\ snapshots' = DescribeDBSnapshots(env)
    /\ idx' = 0
    /\ totalPotentialSavings' = 0
    /\ pc' = "instances"
    /\ UNCHANGED <<env, result, err, volumes, checks, instances, runs, prev, cacheVars, blades>>

\* What one pass of the loop leaves behind.
LoopStep(pass) ==
    /\ calls' = calls \o pass.calls
    /\ result' = [result EXCEPT !.Recommendations = @ \o pass.recs]
    /\ totalPotentialSavings' = totalPotentialSavings + pass.savings
    /\ IF pass.status = "panic"
       THEN pc' = "panic" /\ idx' = idx
       ELSE pc' = "instances" /\ idx' = idx + 1

RDSInstance ==
    /\ env.blade = "RDS"
    /\ pc = "instances"
    /\ idx < Len(instances)
    /\ LoopStep(AnalyzeDBInstance(env, instances[idx + 1], snapshots))
    /\ UNCHANGED <<env, err, volumes, checks, instances, snapshots, runs, prev, cacheVars, blades>>

RDSReserved ==
    /\ env.blade = "RDS"
    /\ pc = "instances"
    /\ idx = Len(instances)
    /\ calls' = Append(calls, Call("DescribeReservedDBInstances", "all"))
    /\ result' = FinishResult(env, result, totalPotentialSavings,
                               TotalSavingsFloat(env, instances, snapshots), Len(instances))
    /\ pc' = "done"
    /\ UNCHANGED <<env, err, volumes, checks, instances, snapshots, idx,
                   totalPotentialSavings, runs, prev, cacheVars, blades>>

(***************************************************************************)
(* PricingClient: the response cache and its sync.RWMutex.  Each goroutine *)
(* calls GetServiceIndex, GetServicePricing or ClearCache and runs it one   *)
(* statement at a time; the clock counts days, so CacheExpiration (24       *)
(* hours) is 1.  env.region is the region the client was constructed with   *)
(* (c.region) and env.index tells whether the catalog serves an index that  *)
(* parses.                                                                  *)
(***************************************************************************)
CacheExpiration == 1

Goroutines == 1..MaxGoroutines

\* The regions and the service the index of the catalog offers.
CacheRegions == {"us-east-1", "eu-west-1"}
CacheServices == {"AmazonEC2"}

\* The regions and services callers of GetServicePricing ask for: those on
\* offer, a region the service is not offered in, and EBSService, which
\* the index lacks.
AskedRegions == CacheRegions \cup {"ap-south-1"}
AskedServices == CacheServices \cup {"AmazonEBS"}

\* DefaultPricingRegion
DefaultPricingRegion == "us-east-1"

\* The arguments NewPricingClient is called with.
ClientRegions == {"", "eu-west-1"}

\* The service GetServiceIndex caches the index under.
IndexService == ""

\* nil bytes, nil error
NoReturn == [data |-> <<>>, err |-> ""]

\* A goroutine: call is the public function it is in and want the region
\* and service GetServicePricing was asked for; op, region and service are
\* the function of the cache it runs and the key it runs it with.
IdleRoutine ==
    [pc |-> "idle", call |-> "", want |-> <<>>, op |-> "", region |-> "", service |-> "",
     cached |-> <<>>, data |-> <<>>, ret |-> NoReturn]

\* fetchWithCache or ClearCache returns: GetServiceIndex has (data, err) of
\* the index in hand and goes on; GetServicePricing returns what the fetch of
\* the page returned; ClearCache returns.
Returning(r, ret) ==
    IF r.op = "fetchWithCache" /\ r.service = IndexService
    THEN [IdleRoutine EXCEPT !.pc = "fetched", !.call = r.call, !.want = r.want, !.ret = ret]
    ELSE [IdleRoutine EXCEPT !.pc = "return", !.call = r.call, !.ret = ret]

\* The analyzers price from the PricingService tables: a run of an analyzer
\* constructs no PricingClient and has no caller of one.
NoPricingClient ==
    /\ cache = EmptyMap
    /\ cacheMutex = 0
    /\ routines = <<>>
    /\ now = 0

\* NewPricingClient(region): the region, or the default one for "", an
\* empty cache, the zero RWMutex; no caller yet.
NewPricingClient(region) ==
    /\ env.region = IF region = "" THEN DefaultPricingRegion ELSE region
    /\ cache = EmptyMap
    /\ cacheMutex = [w |-> 0, readerCount |-> 0, locked |-> FALSE]
    /\ routines = [g \in Goroutines |-> IdleRoutine]
    /\ now = 0

\* The bytes the catalog serves at the URL GetServicePricing takes from the
\* index for a service in a region (offer.Regions[region]), and at the URL
\* of the index (the service "").
Page(region, service) == <<region, service>>

\* A body that is no index: json.Unmarshal fails on it.
Malformed == <<"malformed">>

\* What io.ReadAll reads at the URL of a key.
Body(e, region, service) ==
    IF service = IndexService /\ e.index = "malformed" THEN Malformed
    ELSE Page(region, service)

\* index.Offers[service].Regions of the index the catalog serves.
Offers == [service \in CacheServices |-> CacheRegions]

\* json.Unmarshal(data, &index)
Unmarshal(data) == IF data = Malformed THEN Failed ELSE Ok(Offers)

\* Variant: an entry of exactly CacheExpiration still counts as fresh.
FreshInclusive(cached) == now - cached.Timestamp <= CacheExpiration

\* time.Since(cached.Timestamp) < CacheExpiration
Fresh(cached) == now - cached.Timestamp < CacheExpiration

\* Variant: the entry of the service is taken from whichever region holds one.
CacheLookupAnyRegion(region, service) ==
    IF \E r \in DOMAIN cache : service \in DOMAIN cache[r] /\ Fresh(cache[r][service])
    THEN LET r == CHOOSE r \in DOMAIN cache :
                      service \in DOMAIN cache[r] /\ Fresh(cache[r][service])
         IN <<cache[r][service]>>
    ELSE <<>>

\* regionCache, ok := c.cache[region]; cached, ok := regionCache[service]
CacheLookup(region, service) ==
    IF region \in DOMAIN cache /\ service \in DOMAIN cache[region]
          /\ Fresh(cache[region][service])
    THEN <<cache[region][service]>>
    ELSE <<>>

At(g, label) == routines[g].pc = label

Goto(g, label) == [routines EXCEPT ![g].pc = label]

\* The goroutine r enters fetchWithCache(url, region, service); the url is
\* that of the key's page.
fetchWithCache(r, region, service) ==
    [r EXCEPT !.pc = "RLock", !.op = "fetchWithCache", !.region = region,
              !.service = service, !.cached = <<>>, !.data = <<>>, !.ret = NoReturn]

\* A caller enters GetServiceIndex(): c.fetchWithCache(url, c.region, "").
GetServiceIndex(g) ==
    /\ At(g, "idle")
    /\ routines' = [routines EXCEPT ![g] =
                      fetchWithCache([@ EXCEPT !.call = "GetServiceIndex"],
                                     env.region, IndexService)]
    /\ UNCHANGED <<cache, cacheMutex, now>>

\* A caller enters GetServicePricing(service, region), which gets the
\* service index first.
GetServicePricing(g) ==
    /\ At(g, "idle")
    /\ \E region \in AskedRegions, service \in AskedServices :
          routines' = [routines EXCEPT ![g] =
                          fetchWithCache([@ EXCEPT !.call = "GetServicePricing",
                                                   !.want = <<region, service>>],
                                         env.region, IndexService)]
    /\ UNCHANGED <<cache, cacheMutex, now>>

\* What GetServiceIndex returns once the fetch of the index has returned
\* ret: the error of the fetch, the error of json.Unmarshal, or the index.
ServiceIndex(ret) ==
    IF ret.err # "" THEN ret
    ELSE IF ~Unmarshal(ret.data).ok
    THEN [data |-> <<>>, err |-> "failed to parse service index"]
    ELSE ret

\* GetServicePricing after GetServiceIndex has returned index: the routine
\* either returns an error or enters fetchWithCache(regionURL, region, service).
ServicePricing(r, index) ==
    IF index.err # ""
    THEN Returning([r EXCEPT !.op = ""],
                   [data |-> <<>>, err |-> "failed to get service index"])
    ELSE IF r.want[2] \notin DOMAIN Unmarshal(index.data).val
    THEN Returning([r EXCEPT !.op = ""],
                   [data |-> <<>>, err |-> "service not found in pricing index"])
    ELSE IF r.want[1] \notin Unmarshal(index.data).val[r.want[2]]
    THEN Returning([r EXCEPT !.op = ""],
                   [data |-> <<>>, err |-> "region not supported for service"])
    ELSE fetchWithCache(r, r.want[1], r.want[2])

\* The fetch of the index has returned: GetServiceIndex parses it and
\* returns; GetServicePricing goes on with the index or its error.
ParseIndex(g) ==
    /\ At(g, "fetched")
    /\ routines' = [routines EXCEPT ![g] =
                      IF @.call = "GetServiceIndex"
                      THEN Returning([@ EXCEPT !.op = ""], ServiceIndex(@.ret))
                      ELSE ServicePricing(@, ServiceIndex(@.ret))]
    /\ UNCHANGED <<cache, cacheMutex, now>>

\* A caller enters ClearCache().
ClearCache(g) ==
    /\ At(g, "idle")
    /\ routines' = [routines EXCEPT ![g] =
                      [@ EXCEPT !.pc = "Lock", !.call = "ClearCache", !.op = "ClearCache"]]
    /\ UNCHANGED <<cache, cacheMutex, now>>

\* c.cacheMutex.RLock(): blocks while a writer holds or awaits the lock.
RLock(g) ==
    /\ At(g, "RLock")
    /\ cacheMutex.w = 0
    /\ cacheMutex' = [cacheMutex EXCEPT !.readerCount = @ + 1]
    /\ routines' = Goto(g, "lookup")
    /\ UNCHANGED <<cache, now>>

\* The read of the map and the freshness test.
Lookup(g) ==
    /\ At(g, "lookup")
    /\ routines' = [routines EXCEPT ![g] =
                      [@ EXCEPT !.pc = "RUnlock",
                                !.cached = CacheLookup(routines[g].region,
                                                       routines[g].service)]]
    /\ UNCHANGED <<cache, cacheMutex, now>>

\* Variant: the early return of a cache hit forgets to release the read lock.
RUnlockOnMissOnly(g) ==
    /\ At(g, "RUnlock")
    /\ IF routines[g].cached # <<>>
       THEN /\ cacheMutex' = cacheMutex
            /\ routines' = [routines EXCEPT ![g] =
                              Returning(@, [data |-> @.cached[1].Data, err |-> ""])]
       ELSE /\ cacheMutex' = [cacheMutex EXCEPT !.readerCount = @ - 1]
            /\ routines' = Goto(g, "Get")
    /\ UNCHANGED <<cache, now>>

\* c.cacheMutex.RUnlock() on either path: return the cached data, or go on to fetch.
RUnlock(g) ==
    /\ At(g, "RUnlock")
    /\ cacheMutex' = [cacheMutex EXCEPT !.readerCount = @ - 1]
    /\ routines' = IF routines[g].cached # <<>>
                   THEN [routines EXCEPT ![g] =
                           Returning(@, [data |-> @.cached[1].Data, err |-> ""])]
                   ELSE Goto(g, "Get")
    /\ UNCHANGED <<cache, now>>

\* resp, err := c.httpClient.Get(url), outside any lock: the response has
\* arrived, its body unread, or the request failed.
HttpGet(g) ==
    /\ At(g, "Get")
    /\ \E outcome \in {"ok", "failed to fetch pricing data"} :
          routines' = IF outcome = "ok" THEN Goto(g, "ReadAll")
                      ELSE [routines EXCEPT ![g] =
                              Returning(@, [data |-> <<>>, err |-> outcome])]
    /\ UNCHANGED <<cache, cacheMutex, now>>

\* data, err := io.ReadAll(resp.Body), outside any lock.
ReadAll(g) ==
    /\ At(g, "ReadAll")
    /\ \E outcome \in {"ok", "failed to read response body"} :
          routines' = IF outcome = "ok"
                      THEN [routines EXCEPT ![g] =
                              [@ EXCEPT !.pc = "Lock",
                                        !.data = Body(env, routines[g].region,
                                                       routines[g].service)]]
                      ELSE [routines EXCEPT ![g] =
                              Returning(@, [data |-> <<>>, err |-> outcome])]
    /\ UNCHANGED <<cache, cacheMutex, now>>

\* c.cacheMutex.Lock(), first half: take the writer mutex and announce the
\* writer, which keeps new readers out.
Lock(g) ==
    /\ At(g, "Lock")
    /\ cacheMutex.w = 0
    /\ cacheMutex' = [cacheMutex EXCEPT !.w = g]
    /\ routines' = Goto(g, "LockWait")
    /\ UNCHANGED <<cache, now>>

\* c.cacheMutex.Lock(), second half: wait for the active readers to leave.
LockWait(g) ==
    /\ At(g, "LockWait")
    /\ cacheMutex.readerCount = 0
    /\ cacheMutex' = [cacheMutex EXCEPT !.locked = TRUE]
    /\ routines' = Goto(g, "write")
    /\ UNCHANGED <<cache, now>>

\* c.cache[region][service] = &CachedResponse{Data: data, Timestamp: time.Now()},
\* after making the region's map when it is missing.
Store(g) ==
    /\ At(g, "write")
    /\ routines[g].op = "fetchWithCache"
    /\ LET region == routines[g].region
           regionCache == IF region \in DOMAIN cache THEN cache[region] ELSE EmptyMap
       IN cache' = Put(cache, region,
                       Put(regionCache, routines[g].service,
                           [Data |-> routines[g].data, Timestamp |-> now]))
    /\ routines' = Goto(g, "Unlock")
    /\ UNCHANGED <<cacheMutex, now>>

\* c.cache = make(map[string]map[string]*CachedResponse)
Replace(g) ==
    /\ At(g, "write")
    /\ routines[g].op = "ClearCache"
    /\ cache' = EmptyMap
    /\ routines' = Goto(g, "Unlock")
    /\ UNCHANGED <<cacheMutex, now>>

\* c.cacheMutex.Unlock(), deferred in fetchWithCache, and the return.
Unlock(g) ==
    /\ At(g, "Unlock")
    /\ cacheMutex' = [cacheMutex EXCEPT !.w = 0, !.locked = FALSE]
    /\ routines' = [routines EXCEPT ![g] =
                      Returning(@, IF @.op = "fetchWithCache"
                                   THEN [data |-> @.data, err |-> ""]
                                   ELSE NoReturn)]
    /\ UNCHANGED <<cache, now>>

\* The caller takes what the call returned and is free to call again.
Return(g) ==
    /\ At(g, "return")
    /\ routines' = [routines EXCEPT ![g] = IdleRoutine]
    /\ UNCHANGED <<cache, cacheMutex, now>>

\* A day passes.
Tick ==
    /\ now < MaxClock
    /\ now' = now + 1
    /\ UNCHANGED <<cache, cacheMutex, routines>>

(***************************************************************************)
(* The caller runs the same analyzer object again.                         *)
(***************************************************************************)
Rerun ==
    /\ pc = "done"
    /\ ~prev.set
    /\ runs' = runs + 1
    /\ prev' = [set |-> TRUE, result |-> result, err |-> err]
    /\ pc' = "start"
    /\ result' = NilResult
    /\ err' = ""
    /\ calls' = <<>>
    /\ volumes' = <<>>
    /\ checks' = NoChecks
    /\ instances' = <<>>
    /\ snapshots' = [isNil |-> TRUE, DBSnapshots |-> <<>>]
    /\ idx' = 0
    /\ totalPotentialSavings' = 0
    /\ UNCHANGED <<env, cacheVars, blades>>

Init ==
    /\ env \in EC2Envs \cup RDSEnvs
    /\ pc = "start"
    /\ result = NilResult
    /\ err = ""
    /\ calls = <<>>
    /\ volumes = <<>>
    /\ checks = NoChecks
    /\ instances = <<>>
    /\ snapshots = [isNil |-> TRUE, DBSnapshots |-> <<>>]
    /\ idx = 0
    /\ totalPotentialSavings = 0
    /\ runs = 1
    /\ prev = [set |-> FALSE, result |-> NilResult, err |-> ""]
    /\ NoPricingClient
    /\ blades = Nil

Next ==
    \/ EC2DescribeVolumes
    \/ EC2Underutilized
    \/ EC2Stopped
    \/ EC2Unattached
    \/ RDSDescribeDBInstances
    \/ RDSDescribeDBSnapshots
    \/ RDSInstance
    \/ RDSReserved

NextTwice == Next \/ Rerun

Spec == Init /\ [][Next]_vars

SpecTwice == Init /\ [][NextTwice]_vars

(***************************************************************************)
(* Volume pricing: the compute analyzer against volumes of two types and   *)
(* three sizes, priced per type in tenths of a cent per GiB-month: 0.10    *)
(* for the one, 0.125 or 0.005 for the other, which give costs that are no *)
(* whole cents (0.125 is a float64, 0.005 and 0.1 + 0.125 are not).  A     *)
(* running instance with savings of 0.005 may stand beside the stopped one.*)
(***************************************************************************)
PricedVolumeTypes == {"gp2", "io1"}
PricedVolumeSizes == {0, 1, 100}
PricedAttachments == {"none", "i-1"}

PricedVolumeLists ==
    UNION {{[k \in 1..n |-> [id |-> VolumeIdOf[k], type |-> f[k][1], size |-> <<f[k][2]>>,
                             state |-> IF f[k][3] = "none" THEN "available" ELSE "in-use",
                             attachedTo |-> f[k][3]]] :
              f \in [1..n -> PricedVolumeTypes \X PricedVolumeSizes \X PricedAttachments]} :
           n \in 0..MaxPricedVolumes}

\* Price answers per volume type in a supported region; none in an unsupported one.
VolumePriceTables(regionSupported) ==
    IF regionSupported
    THEN {("gp2" :> g) @@ ("io1" :> i) :
             g \in {Ok(100), Ok(0), Failed}, i \in {Ok(125), Ok(5), Failed}}
    ELSE {("gp2" :> Failed) @@ ("io1" :> Failed)}

PricedFleets ==
    {<<>>, <<[id |-> "i-1", type |-> "t2.micro", state |-> "stopped"]>>,
     <<[id |-> "i-1", type |-> "t2.micro", state |-> "stopped"],
       [id |-> "i-2", type |-> "t2.micro", state |-> "running"]>>}

VolumeEnvs ==
    UNION {[blade : {"EC2"},
            instances : PricedFleets,
            volumes : PricedVolumeLists,
            savings : {[t \in InstanceTypes |-> Ok(5)]},
            regionSupported : {r},
            price : VolumePriceTables(r),
            unit : {10},
            failing : {{}}] : r \in BOOLEAN}

InitVolumes ==
    /\ env \in VolumeEnvs
    /\ pc = "start"
    /\ result = NilResult
    /\ err = ""
    /\ calls = <<>>
    /\ volumes = <<>>
    /\ checks = NoChecks
    /\ instances = <<>>
    /\ snapshots = [isNil |-> TRUE, DBSnapshots |-> <<>>]
    /\ idx = 0
    /\ totalPotentialSavings = 0
    /\ runs = 1
    /\ prev = [set |-> FALSE, result |-> NilResult, err |-> ""]
    /\ NoPricingClient
    /\ blades = Nil

NextEC2 ==
    \/ EC2DescribeVolumes
    \/ EC2Underutilized
    \/ EC2Stopped
    \/ EC2Unattached

SpecVolumes == InitVolumes /\ [][NextEC2]_vars

(***************************************************************************)
(* The battery of heuristics: the database analyzer against one profiled   *)
(* instance db-1, followed by a few other instances.  A profile is the     *)
(* inventory record of the instance, the metric samples the metrics        *)
(* provider holds for it and the number of its snapshots.                  *)
(***************************************************************************)
Profile(class, engine, multiAZ, allocatedStorage, backupRetention, data, metricsOk, snaps) ==
    [class |-> class, engine |-> engine, multiAZ |-> multiAZ,
     allocatedStorage |-> allocatedStorage, backupRetention |-> backupRetention,
     data |-> data, metricsOk |-> metricsOk, snaps |-> snaps]

\* Samples of an instance on which no heuristic fires.
QuietData ==
    ("cpu" :> <<50>>) @@ ("connections" :> <<2500>>) @@ ("burst_balance" :> <<100>>)

QuietProfile == Profile("db.m6g.large", "mysql", <<FALSE>>, 100, <<7>>, QuietData, TRUE, 0)

\* One switch per heuristic of the battery, in battery order, with the line
\* the heuristic appends.
Toggles ==
    <<"LowUtilization", "ReduceStorage", "HighSwap", "HighQueueDepth", "HighLatency",
      "HighNetwork", "EnableMultiAZ", "LowBackupRetention", "ManySnapshots", "Deadlocks",
      "LowBurstBalance">>

ToggleSet == {Toggles[k] : k \in 1..Len(Toggles)}

\* The samples that make the heuristics of on fire and no other.  A metric
\* that is to exceed its limit does so by half a unit on the mean of two
\* samples; one that is not sits on the limit.
ToggledData(on) ==
    (IF "LowUtilization" \in on
     THEN ("cpu" :> <<20, 40>>) @@ ("connections" :> <<500>>)
     ELSE ("cpu" :> <<50>>) @@ ("connections" :> <<2500>>))
    @@ (IF "ReduceStorage" \in on THEN ("storage" :> <<120>>) ELSE EmptyMap)
    @@ (IF "HighSwap" \in on THEN ("swap_usage" :> <<50, 51>>) ELSE ("swap_usage" :> <<50>>))
    @@ (IF "HighQueueDepth" \in on THEN ("disk_queue_depth" :> <<1, 2>>) ELSE EmptyMap)
    @@ (IF "HighLatency" \in on THEN ("write_latency" :> <<20, 21>>) ELSE ("read_latency" :> <<20>>))
    @@ (IF "HighNetwork" \in on THEN ("network_transmit" :> <<100, 101>>) ELSE EmptyMap)
    @@ (IF "EnableMultiAZ" \in on THEN ("write_iops" :> <<1000, 1001>>) ELSE ("write_iops" :> <<1000>>))
    @@ (IF "Deadlocks" \in on THEN ("deadlocks" :> <<0, 1>>) ELSE EmptyMap)
    @@ (IF "LowBurstBalance" \in on THEN ("burst_balance" :> <<19, 20>>)
        ELSE ("burst_balance" :> <<20>>))

ToggledProfile(on) ==
    Profile("db.m6g.large", "mysql", <<FALSE>>,
            IF "ReduceStorage" \in on THEN 200 ELSE 100,
            IF "LowBackupRetention" \in on THEN <<3>> ELSE <<7>>,
            ToggledData(on), TRUE,
            IF "ManySnapshots" \in on THEN 31 ELSE 30)

ToggledProfiles == {ToggledProfile(on) : on \in SUBSET ToggleSet}

\* Profiles at and next to the thresholds of the low-utilization and the
\* storage heuristic.  Connections are taken on the classes whose 40% is a
\* whole number (60 of 150, 2000 of 5000); storage is the allocated storage
\* and the samples of free space, in GiB (200 with a mean of 100.5 free is
\* used to 49.75%).
ThresholdConnections ==
    {<<"db.t3.small", <<59>>>>, <<"db.t3.small", <<59, 60>>>>, <<"db.t3.small", <<60>>>>,
     <<"db.m6g.large", <<1999>>>>, <<"db.m6g.large", <<2000>>>>}

ThresholdStorage ==
    {<<200, <<100>>>>, <<200, <<100, 101>>>>, <<200, <<102>>>>, <<100, <<51>>>>,
     <<101, <<101>>>>}

ThresholdProfiles ==
    {Profile(c[1], "mysql", <<FALSE>>, st[1], <<7>>,
             ("cpu" :> cpu) @@ ("connections" :> c[2]) @@ ("storage" :> st[2])
                 @@ ("burst_balance" :> <<100>>),
             TRUE, 0) :
        cpu \in {<<39>>, <<39, 40>>, <<40>>, <<38, 42>>}, c \in ThresholdConnections,
        st \in ThresholdStorage}

\* Profiles of the multi-zone heuristics: the flag set, cleared or absent,
\* against read and write IOPS and connections on both sides of the limits.
MultiAZProfiles ==
    {Profile("db.m6g.large", "mysql", az, 100, <<7>>,
             ("cpu" :> <<50>>) @@ ("connections" :> <<conn>>) @@ ("read_iops" :> <<io[1]>>)
                 @@ ("write_iops" :> <<io[2]>>) @@ ("burst_balance" :> <<100>>),
             TRUE, 0) :
        az \in {<<TRUE>>, <<FALSE>>, <<>>},
        io \in {<<0, 0>>, <<5, 1>>, <<4, 1>>, <<0, 1000>>, <<0, 1001>>, <<5000, 1001>>},
        conn \in {2500, 3500, 3501}}

\* Profiles of the engines: the aurora family on a mapped and an unmapped
\* class, with quiet samples, with samples on which every heuristic would
\* fire, and with a failing metrics request; the engines with a heuristic
\* of their own, and one without.
EngineProfiles ==
    {Profile(class, engine, az, IF busy THEN 200 ELSE 100, IF busy THEN <<3>> ELSE <<7>>,
             IF busy THEN ToggledData(ToggleSet) @@ ("blocked_transactions" :> <<5, 6>>)
             ELSE QuietData @@ ("blocked_transactions" :> <<5>>),
             ok, IF busy THEN 31 ELSE 0) :
        class \in {"db.t3.micro", "db.m6g.large"},
        engine \in {"aurora", "aurora-mysql", "aurora-postgresql", "mysql", "mariadb",
                    "postgres", "oracle-ee"},
        az \in {<<TRUE>>, <<FALSE>>}, busy \in BOOLEAN, ok \in BOOLEAN}

\* Profiles on which the rounding of float64 decides.  On db.t3.micro the
\* limits 66*0.4 and 66*0.7 are the float64 26.400000000000002 and
\* 46.199999999999996, met by connections with a mean of 26.4 and of 46.2; a
\* read latency of 4, 35 and 21 ms has the float64 mean 0.020000000000000004
\* s where the limit is 0.02; and means of 0.05, 0.025 and 1.075 are printed
\* to a digit they lie halfway to.
OneIn(n) == [k \in 1..n |-> IF k = 1 THEN 1 ELSE 0]

RoundingProfiles ==
    {Profile("db.t3.micro", "mysql", <<FALSE>>, 100, <<7>>,
             ("cpu" :> cpu) @@ ("connections" :> conn) @@ ("burst_balance" :> <<100>>),
             TRUE, 0) :
        cpu \in {<<20>>, <<50>>},
        conn \in {<<26>>, <<27, 27, 26, 26, 26>>, <<27>>, <<46>>, <<47, 46, 46, 46, 46>>,
                  <<47>>}}
    \cup {Profile("db.m6g.large", "mysql", <<FALSE>>, 100, <<7>>,
                  QuietData @@ ("read_latency" :> read) @@ ("write_latency" :> write),
                  TRUE, 0) :
             read \in {<<4, 35, 21>>, <<20>>, <<1, 0, 0, 0, 0, 0, 0, 0>>},
             write \in {<<>>, <<21, 35, 4>>}}
    \cup {Profile("db.m6g.large", "mysql", <<FALSE>>, 100, <<7>>,
                  ("cpu" :> OneIn(20)) @@ ("connections" :> <<0>>)
                      @@ ("burst_balance" :> OneIn(40))
                      @@ ("disk_queue_depth" :> [k \in 1..40 |-> IF k <= 3 THEN 2 ELSE 1]),
                  TRUE, 0)}

Profiles ==
    ToggledProfiles \cup ThresholdProfiles \cup MultiAZProfiles \cup EngineProfiles
        \cup RoundingProfiles

\* The instances that may follow db-1: an aurora instance, an instance whose
\* metrics request fails, a quiet one, and one flagged for an upgrade whose
\* metrics response is empty and whose record has no backup retention.
OtherProfileSeq ==
    <<Profile("db.t3.micro", "aurora-mysql", <<FALSE>>, 100, <<7>>, QuietData, TRUE, 0),
      Profile("db.t3.micro", "mysql", <<FALSE>>, 100, <<7>>, QuietData, FALSE, 0),
      QuietProfile,
      Profile("db.t3.micro", "postgres", <<TRUE>>, 100, <<>>, EmptyMap, TRUE, 0)>>

OtherProfiles == {OtherProfileSeq[k] : k \in 1..Len(OtherProfileSeq)}

ProfiledInstance(id, p) ==
    [id |-> id, class |-> p.class, engine |-> p.engine, multiAZ |-> p.multiAZ,
     allocatedStorage |-> p.allocatedStorage, backupRetention |-> p.backupRetention]

RECURSIVE SnapshotsOf(_, _)
SnapshotsOf(ps, k) ==
    IF k > Len(ps) THEN <<>>
    ELSE [j \in 1..ps[k].snaps |-> [id |-> "snap", dbInstance |-> DBInstanceIdOf[k]]]
         \o SnapshotsOf(ps, k + 1)

BatterySavings ==
    ("db.t3.micro" :> Ok(5)) @@ ("db.t3.small" :> Ok(0)) @@ ("db.m5.large" :> Ok(7))
        @@ ("db.m6g.large" :> Ok(9))

\* The collaborator responses for the instances profiled by ps.
ProfiledEnv(ps, reserved) ==
    [blade |-> "RDS",
     dbInstances |-> [k \in 1..Len(ps) |-> ProfiledInstance(DBInstanceIdOf[k], ps[k])],
     metricData |-> [id \in {DBInstanceIdOf[k] : k \in 1..Len(ps)} |->
                       LET k == CHOOSE j \in 1..Len(ps) : DBInstanceIdOf[j] = id
                       IN [ok |-> ps[k].metricsOk, val |-> ps[k].data]],
     dbSnapshots |-> SnapshotsOf(ps, 1),
     reserved |-> reserved,
     savings |-> BatterySavings,
     failing |-> {}]

BatteryEnvs ==
    {ProfiledEnv(<<p>> \o others, <<>>) :
        p \in Profiles,
        others \in UNION {[1..n -> OtherProfiles] : n \in 0..MaxOtherDBInstances}}

\* Fleets whose pricing lookup answers in tenths of a cent: savings of
\* $0.005, $0.015 and $0.125 a month, none of them whole cents.
FractionSavings ==
    ("db.t3.micro" :> Ok(5)) @@ ("db.t3.small" :> Ok(15)) @@ ("db.m5.large" :> Ok(125))
        @@ ("db.m6g.large" :> Ok(9))

FractionProfiles ==
    {Profile(class, "mysql", <<TRUE>>, 100, <<7>>, QuietData, TRUE, 0) :
        class \in {"db.t3.micro", "db.t3.small", "db.m5.large"}}

FractionEnvs ==
    {[unit |-> 10] @@ [ProfiledEnv(ps, <<>>) EXCEPT !.savings = FractionSavings] :
        ps \in UNION {[1..n -> FractionProfiles] : n \in 1..2}}

\* Reservation coverage: fleets of up to MaxCoverage instances (aurora,
\* failing metrics, quiet and flagged in turn) against up to MaxCoverage
\* reservation records that are active, retired or without a state.
CoverageFleet(n) == [k \in 1..n |-> OtherProfileSeq[((k - 1) % Len(OtherProfileSeq)) + 1]]

ReservationStates == {"active", "retired", Nil}

CoverageReservations ==
    UNION {{[k \in 1..n |-> [state |-> f[k]]] : f \in [1..n -> ReservationStates]} :
           n \in 0..MaxCoverage}

CoverageEnvs ==
    {ProfiledEnv(CoverageFleet(n), reserved) :
        n \in 0..MaxCoverage, reserved \in CoverageReservations}

\* The same fleet with every combination of failing listings.
FailingEnvs ==
    {[ProfiledEnv(CoverageFleet(Len(OtherProfileSeq)), <<[state |-> "active"]>>)
         EXCEPT !.failing = f] : f \in SUBSET RDSFailPoints}

InitRDS ==
    /\ \/ env \in BatteryEnvs
       \/ env \in FractionEnvs
       \/ env \in CoverageEnvs
       \/ env \in FailingEnvs
    /\ pc = "start"
    /\ result = NilResult
    /\ err = ""
    /\ calls = <<>>
    /\ volumes = <<>>
    /\ checks = NoChecks
    /\ instances = <<>>
    /\ snapshots = [isNil |-> TRUE, DBSnapshots |-> <<>>]
    /\ idx = 0
    /\ totalPotentialSavings = 0
    /\ runs = 1
    /\ prev = [set |-> FALSE, result |-> NilResult, err |-> ""]
    /\ NoPricingClient
    /\ blades = Nil

NextRDS ==
    \/ RDSDescribeDBInstances
    \/ RDSDescribeDBSnapshots
    \/ RDSInstance
    \/ RDSReserved

SpecRDS == InitRDS /\ [][NextRDS]_vars

(***************************************************************************)
(* Concurrent callers of one PricingClient.                                *)
(***************************************************************************)
InitCache ==
    /\ \E index \in {"index", "malformed"} :
          env \in {[blade |-> "PricingClient", failing |-> {}, region |-> region,
                    index |-> index] : region \in CacheRegions}
    /\ pc = "done"
    /\ result = NilResult
    /\ err = ""
    /\ calls = <<>>
    /\ volumes = <<>>
    /\ checks = NoChecks
    /\ instances = <<>>
    /\ snapshots = [isNil |-> TRUE, DBSnapshots |-> <<>>]
    /\ idx = 0
    /\ totalPotentialSavings = 0
    /\ runs = 1
    /\ prev = [set |-> TRUE, result |-> NilResult, err |-> ""]
    /\ \E region \in ClientRegions : NewPricingClient(region)
    /\ blades = Nil

analyzerVars ==
    <<env, pc, result, err, calls, volumes, checks, instances, snapshots, idx,
      totalPotentialSavings, runs, prev, blades>>

NextCache ==
    \/ \E g \in Goroutines : GetServiceIndex(g) /\ UNCHANGED analyzerVars
    \/ \E g \in Goroutines : GetServicePricing(g) /\ UNCHANGED analyzerVars
    \/ \E g \in Goroutines : ParseIndex(g) /\ UNCHANGED analyzerVars
    \/ \E g \in Goroutines : ClearCache(g) /\ UNCHANGED analyzerVars
    \/ \E g \in Goroutines : RLock(g) /\ UNCHANGED analyzerVars
    \/ \E g \in Goroutines : Lookup(g) /\ UNCHANGED analyzerVars
    \/ \E g \in Goroutines : RUnlock(g) /\ UNCHANGED analyzerVars
    \/ \E g \in Goroutines : HttpGet(g) /\ UNCHANGED analyzerVars
    \/ \E g \in Goroutines : ReadAll(g) /\ UNCHANGED analyzerVars
    \/ \E g \in Goroutines : Lock(g) /\ UNCHANGED analyzerVars
    \/ \E g \in Goroutines : LockWait(g) /\ UNCHANGED analyzerVars
    \/ \E g \in Goroutines : Store(g) /\ UNCHANGED analyzerVars
    \/ \E g \in Goroutines : Replace(g) /\ UNCHANGED analyzerVars
    \/ \E g \in Goroutines : Unlock(g) /\ UNCHANGED analyzerVars
    \/ \E g \in Goroutines : Return(g) /\ UNCHANGED analyzerVars
    \/ Tick /\ UNCHANGED analyzerVars

SpecCache == InitCache /\ [][NextCache]_vars

(***************************************************************************)
(* The compute analyzer against inventory providers that do and do not     *)
(* apply the request filters, over instances that are running, stopped or  *)
(* terminated.                                                             *)
(***************************************************************************)
ProvidedInstanceKinds ==
    {<<"t2.micro", "running">>, <<"t2.micro", "stopped">>, <<"t2.micro", "terminated">>,
     <<"m5.large", "stopped">>}

ProvidedInstanceLists ==
    UNION {{[k \in 1..n |-> [id |-> InstanceIdOf[k], type |-> f[k][1], state |-> f[k][2]]] :
              f \in [1..n -> ProvidedInstanceKinds]} : n \in 0..MaxInstances}

\* What the provider holds: nothing, or one volume, unattached or attached to
\* i-1, with a size or, as CreateTestVolume builds it, without one.
ProvidedVolumeLists ==
    {<<>>} \cup
    {<<[id |-> "vol-1", type |-> "gp2", size |-> size, state |-> state[1],
        attachedTo |-> state[2]]>> :
        size \in {<<100>>, <<>>},
        state \in {<<"available", "none">>, <<"in-use", "i-1">>}}

ProviderEnvs ==
    [blade : {"EC2"},
     instances : ProvidedInstanceLists,
     volumes : ProvidedVolumeLists,
     savings : {[t \in InstanceTypes |-> Ok(5)]},
     regionSupported : {TRUE},
     price : {[t \in VolumeTypes |-> Ok(10)]},
     filters : BOOLEAN,
     failing : {{}}]

InitProviders ==
    /\ env \in ProviderEnvs
    /\ pc = "start"
    /\ result = NilResult
    /\ err = ""
    /\ calls = <<>>
    /\ volumes = <<>>
    /\ checks = NoChecks
    /\ instances = <<>>
    /\ snapshots = [isNil |-> TRUE, DBSnapshots |-> <<>>]
    /\ idx = 0
    /\ totalPotentialSavings = 0
    /\ runs = 1
    /\ prev = [set |-> FALSE, result |-> NilResult, err |-> ""]
    /\ NoPricingClient
    /\ blades = Nil

SpecProviders == InitProviders /\ [][NextEC2]_vars

(***************************************************************************)
(* The compute analyzer priced by PricingService from pricing data: the    *)
(* shipped entries of the t3 types, and an entry of t2.micro, when it has  *)
(* one, with any recommended upgrade and downgrade among them.             *)
(***************************************************************************)
OnDemandTables ==
    LET Entry(price, up, down) ==
            [PricePerHour |-> price, RecommendedUpgrade |-> up, RecommendedDowngrade |-> down]
        t3 == ("t3.micro" :> Entry(104, "", "t2.micro"))
                 @@ ("t3.small" :> Entry(208, "", "t2.small"))
                 @@ ("t3.nano" :> Entry(52, "", ""))
    IN {t3} \cup {("t2.micro" :> Entry(116, up, down)) @@ t3 :
                     up \in {"", "t3.micro", "t3.small"},
                     down \in {"", "t3.micro", "t3.nano", "t1.micro"}}

PricingEnvs ==
    [blade : {"EC2"},
     instances : UNION {[1..n -> {[id |-> InstanceIdOf[k], type |-> t, state |-> "running"] :
                                     k \in 1..n, t \in {"t2.micro", "t3.micro"}}] :
                           n \in 0..MaxInstances},
     volumes : {<<>>},
     onDemand : [regionPriced : BOOLEAN, types : OnDemandTables],
     regionSupported : {TRUE},
     price : {[t \in VolumeTypes |-> Ok(10)]},
     failing : {{}}]

InitPricing ==
    /\ env \in PricingEnvs
    /\ \A k \in 1..Len(env.instances) : env.instances[k].id = InstanceIdOf[k]
    /\ pc = "start"
    /\ result = NilResult
    /\ err = ""
    /\ calls = <<>>
    /\ volumes = <<>>
    /\ checks = NoChecks
    /\ instances = <<>>
    /\ snapshots = [isNil |-> TRUE, DBSnapshots |-> <<>>]
    /\ idx = 0
    /\ totalPotentialSavings = 0
    /\ runs = 1
    /\ prev = [set |-> FALSE, result |-> NilResult, err |-> ""]
    /\ NoPricingClient
    /\ blades = Nil

SpecPricing == InitPricing /\ [][NextEC2]_vars

(***************************************************************************)
(* factory.CreateBlade: the provider switch and the construction of the    *)
(* analyzers.  A blade is modelled by the name its GetName returns; the    *)
(* variadic clients argument by the dynamic types of its elements.         *)
(***************************************************************************)
Providers == {"aws", "azure", "gcp", "AWS", "", "unsupported"}

ClientArgumentLists ==
    UNION {[1..n -> {"AWSClients", "other"}] : n \in 0..MaxClientArguments}

\* What the default SDK configuration and the pricing tables do when loaded.
SDKOutcomes == {"ok", "unable to load AWS SDK config", "failed to create pricing service"}

FactoryOutcome(bs, e) == [blades |-> bs, err |-> e]

\* Variant: only the compute analyzer is built, as CreateBlades does.
createAWSBladeWithClientsEC2Only ==
    FactoryOutcome(<<"EC2 Optimization Blade">>, "")

\* NewEC2Blade and NewRDSBlade never return an error.
createAWSBladeWithClients ==
    FactoryOutcome(<<"EC2 Optimization Blade", "RDS Optimization Blade">>, "")

createAWSBlade(sdk) ==
    IF sdk = "ok" THEN createAWSBladeWithClients ELSE FactoryOutcome(Nil, sdk)

CreateBlade(provider, clients, sdk) ==
    IF provider = "aws"
    THEN IF Len(clients) > 0 /\ clients[1] = "AWSClients"
         THEN createAWSBladeWithClients
         ELSE createAWSBlade(sdk)
    ELSE FactoryOutcome(Nil, "unsupported cloud provider")

FactoryCreateBlade ==
    /\ env.blade = "Factory"
    /\ pc = "start"
    /\ LET out == CreateBlade(env.provider, env.clients, env.sdk)
       IN blades' = out.blades /\ err' = out.err
    /\ pc' = "done"
    /\ UNCHANGED <<env, result, calls, volumes, checks, instances, snapshots, idx,
                   totalPotentialSavings, runs, prev, cacheVars>>

InitFactory ==
    /\ env \in [blade : {"Factory"}, provider : Providers, clients : ClientArgumentLists,
                 sdk : SDKOutcomes, failing : {{}}]
    /\ pc = "start"
    /\ result = NilResult
    /\ err = ""
    /\ calls = <<>>
    /\ volumes = <<>>
    /\ checks = NoChecks
    /\ instances = <<>>
    /\ snapshots = [isNil |-> TRUE, DBSnapshots |-> <<>>]
    /\ idx = 0
    /\ totalPotentialSavings = 0
    /\ runs = 1
    /\ prev = [set |-> TRUE, result |-> NilResult, err |-> ""]
    /\ NoPricingClient
    /\ blades = Nil

NextFactory == FactoryCreateBlade

SpecFactory == InitFactory /\ [][NextFactory]_vars

(***************************************************************************)
(* Properties                                                              *)
(***************************************************************************)
Returned == pc = "done" /\ ~result.isNil

ItemisedKinds == {"Upgrade", "AttachedVolume", "UnattachedVolume", "RdsUpgrade"}

ItemisedLines(recs) == SelectSeq(recs, LAMBDA l : l.kind \in ItemisedKinds)

\* The printed amounts of the lines add up to the total, to the rounding of
\* "%.2f": exactly where amounts are whole cents, within half a cent per
\* line where they are not.
\* amount, the cents a line prints, is the exact amount (in the units of the
\* environment) to the cent: no farther from it than half a cent.
ToTheCent(amount, exact) ==
    LET gap == MoneyUnit(env) * amount - exact
    IN 2 * gap <= MoneyUnit(env) /\ -2 * gap <= MoneyUnit(env)

SumsTo(lines, total) ==
    LET gap == total - MoneyUnit(env) * SumAmounts(lines)
        slack == (MoneyUnit(env) \div 2) * Len(lines)
    IN gap <= slack /\ -gap <= slack

HasLine(recs, kind, id) ==
    \E j \in 1..Len(recs) : recs[j].kind = kind /\ recs[j].id = id

HasKind(recs, kind) == \E j \in 1..Len(recs) : recs[j].kind = kind

\* The upgrade suggestion of a database instance is the line right after its header.
RDSUpgradeLineFor(recs, id) ==
    \E j \in 1..(Len(recs) - 1) :
        /\ recs[j].kind = "InstanceHeader"
        /\ recs[j].id = id
        /\ recs[j + 1].kind = "RdsUpgrade"

NonPositiveSavings(type) == env.savings[type].ok /\ env.savings[type].val <= 0

PositiveSavings(type) == env.savings[type].ok /\ env.savings[type].val > 0

Flagged(instance) ==
    /\ instance.state = "running"
    /\ instance.type \in DOMAIN instanceUpgrades
    /\ PositiveSavings(instance.type)

DBAnalyzed(instance) == ~IsAurora(instance.engine) /\ env.metricData[instance.id].ok

DBFlagged(instance) ==
    /\ DBAnalyzed(instance)
    /\ instance.class \in DOMAIN rdsInstanceUpgrades
    /\ PositiveSavings(instance.class)

ExpectedUpgradeSavings ==
    SumValues([k \in 1..Len(env.instances) |->
                 IF Flagged(env.instances[k]) THEN env.savings[env.instances[k].type].val
                 ELSE 0])

ExpectedDBSavings(n) ==
    SumValues([k \in 1..n |->
                 IF DBFlagged(env.dbInstances[k]) THEN env.savings[env.dbInstances[k].class].val
                 ELSE 0])

\* C1: in every result returned by either analyzer, PotentialSavings is the
\* sum of the amounts carried by the per-resource recommendation lines of
\* that result: nothing is added without a line, no line carries an amount
\* that was not added.  A line prints its amount to the nearest cent, so the
\* two agree to the cent where amounts are whole cents and within half a
\* cent per line where they are not.
C1_SavingsAreItemised ==
    Returned => SumsTo(ItemisedLines(result.Recommendations), result.PotentialSavings)

C1_Witness ==
    /\ Returned
    /\ env.blade = "EC2"
    /\ HasKind(result.Recommendations, "Upgrade")
    /\ HasKind(result.Recommendations, "AttachedVolume")
    /\ HasKind(result.Recommendations, "UnattachedVolume")
    /\ result.PotentialSavings > 0

\* C2: an instance whose upgrade savings come back zero or negative gets no
\* upgrade line and adds nothing; it is no error: the call returns a result,
\* the other instances keep their lines and the other checks are run, and the
\* only crash of the database analyzer is the one of a missing snapshot listing.
C2_NonPositiveSavingsSuppressed ==
    /\ env.blade = "EC2" =>
         /\ \A k \in 1..Len(env.instances) :
              NonPositiveSavings(env.instances[k].type) =>
                  ~HasLine(result.Recommendations, "Upgrade", env.instances[k].id)
         /\ ("underutilized" \in DOMAIN checks /\ ~checks["underutilized"].err) =>
                checks["underutilized"].savings = ExpectedUpgradeSavings
         /\ (pc = "done" /\ ~Fails(env, Call("DescribeVolumes", "all"))) =>
                /\ err = "" /\ ~result.isNil
                /\ DOMAIN checks = {"underutilized", "stopped", "unattached"}
                /\ ~Fails(env, Call("DescribeInstances", "running")) =>
                      \A k \in 1..Len(env.instances) :
                          Flagged(env.instances[k]) =>
                              HasLine(result.Recommendations, "Upgrade", env.instances[k].id)
    /\ env.blade = "RDS" =>
         /\ \A k \in 1..Len(env.dbInstances) :
              NonPositiveSavings(env.dbInstances[k].class) =>
                  ~RDSUpgradeLineFor(result.Recommendations, env.dbInstances[k].id)
         /\ totalPotentialSavings = ExpectedDBSavings(idx)
         /\ pc = "panic" => snapshots.isNil
         /\ (pc = "done" /\ ~Fails(env, Call("DescribeDBInstances", "all"))) =>
                /\ err = "" /\ ~result.isNil
                /\ result.PotentialSavings = ExpectedDBSavings(Len(env.dbInstances))
                /\ \A k \in 1..Len(env.dbInstances) :
                       DBFlagged(env.dbInstances[k]) =>
                           RDSUpgradeLineFor(result.Recommendations, env.dbInstances[k].id)

C2_Witness ==
    /\ Returned
    /\ env.blade = "RDS"
    /\ Len(env.dbInstances) = 2
    /\ DBAnalyzed(env.dbInstances[1])
    /\ env.dbInstances[1].class = "db.t3.micro"
    /\ NonPositiveSavings("db.t3.micro")
    /\ DBFlagged(env.dbInstances[2])
    /\ result.PotentialSavings = 7

\* C3: an instance whose type is no key of the analyzer's Upgrade Map never
\* gets an upgrade line, and the pricing lookup is never asked for the savings
\* of such a type.
C3_UnmappedNeverUpgraded ==
    /\ env.blade = "EC2" =>
         /\ \A j \in 1..Len(calls) :
              calls[j].op = "CalculateInstanceSavings" =>
                  calls[j].arg \in DOMAIN instanceUpgrades
         /\ \A k \in 1..Len(env.instances) :
              env.instances[k].type \notin DOMAIN instanceUpgrades =>
                  ~HasLine(result.Recommendations, "Upgrade", env.instances[k].id)
    /\ env.blade = "RDS" =>
         /\ \A j \in 1..Len(calls) :
              calls[j].op = "CalculateInstanceSavings" =>
                  calls[j].arg \in DOMAIN rdsInstanceUpgrades
         /\ \A k \in 1..Len(env.dbInstances) :
              env.dbInstances[k].class \notin DOMAIN rdsInstanceUpgrades =>
                  ~RDSUpgradeLineFor(result.Recommendations, env.dbInstances[k].id)

C3_Witness ==
    /\ Returned
    /\ env.blade = "EC2"
    /\ Len(env.instances) = 2
    /\ env.instances[1].type = "m5.large"
    /\ env.instances[1].state = "running"
    /\ HasLine(result.Recommendations, "Upgrade", "i-2")

\* C4 (as claimed): a second run of the same analyzer against the same
\* collaborator responses returns the same PotentialSavings and the same
\* ordered recommendation list as the first, also with two flagged instances.
C4_SecondRunIdentical ==
    (pc = "done" /\ prev.set) => (result = prev.result /\ err = prev.err)

VolumesCall == Call("DescribeVolumes", "all")
RunningCall == Call("DescribeInstances", "running")
StoppedCall == Call("DescribeInstances", "stopped")

\* C5 (as claimed): EC2Blade.Execute returns an error and no result whenever
\* the volume listing or an instance listing fails.
C5_AnyListingFailureIsFatal ==
    (/\ env.blade = "EC2"
     /\ pc = "done"
     /\ \/ Fails(env, VolumesCall)
        \/ Fails(env, RunningCall)
        \/ Fails(env, StoppedCall))
    => (result.isNil /\ err # "")

\* C5 (amended): EC2Blade.Execute returns an error and no result exactly when
\* the volume listing fails, and then issues no other request; a failing
\* instance listing with a succeeding volume listing is not an error: a result
\* is returned to which the check of that listing contributes nothing.
C5_OnlyVolumeListingIsFatal ==
    (env.blade = "EC2" /\ pc = "done") =>
        /\ (result.isNil /\ err # "") <=> Fails(env, VolumesCall)
        /\ (~result.isNil /\ err = "") <=> ~Fails(env, VolumesCall)
        /\ Fails(env, VolumesCall) => calls = <<VolumesCall>>
        /\ (~Fails(env, VolumesCall) /\ Fails(env, RunningCall)) =>
               /\ ~HasKind(result.Recommendations, "Upgrade")
               /\ ~HasKind(result.Recommendations, "UnderutilizedHeader")
        /\ (~Fails(env, VolumesCall) /\ Fails(env, StoppedCall)) =>
               /\ ~HasKind(result.Recommendations, "AttachedVolume")
               /\ ~HasKind(result.Recommendations, "StoppedHeader")

C5_Witness ==
    /\ env.blade = "EC2"
    /\ pc = "done"
    /\ Fails(env, RunningCall)
    /\ ~Fails(env, VolumesCall)
    /\ \E k \in 1..Len(env.instances) : Flagged(env.instances[k])
    /\ ~result.isNil
    /\ HasKind(result.Recommendations, "StoppedHeader")

\* The requests one check issues itself.
OwnFailPoints(check) ==
    CASE check = "underutilized" -> {RunningCall}
      [] check = "stopped" -> {StoppedCall, Call("DescribeVolumes", "i-1")}
      [] OTHER -> {}

\* The pricing answers of env with every failed savings lookup answered.
RepairedSavings ==
    [t \in DOMAIN env.savings |-> IF env.savings[t].ok THEN env.savings[t] ELSE Ok(5)]

\* The collaborator responses of env without the failures inside the other
\* checks: none of their requests fails and, for the two volume checks, no
\* savings lookup fails.
OtherChecksRepaired(check) ==
    [env EXCEPT !.failing = @ \cap OwnFailPoints(check),
                !.savings = IF check = "underutilized" THEN @ ELSE RepairedSavings]

Contribution(check) == IF checks[check].err THEN <<>> ELSE checks[check].recs

ContributedSavings(check) == IF checks[check].err THEN 0 ELSE checks[check].savings

\* C6: the three checks of EC2Blade.Execute are independent.  Each check
\* contributes exactly what it would contribute without the failures inside
\* the other two checks; a failed check contributes nothing; the result is the
\* three contributions in order and the call is no error.
C6_ChecksIndependent ==
    (env.blade = "EC2" /\ pc = "done" /\ ~Fails(env, VolumesCall)) =>
        /\ err = "" /\ ~result.isNil
        /\ result.Recommendations =
               Contribution("underutilized") \o Contribution("stopped")
                   \o Contribution("unattached")
        /\ result.PotentialSavings =
               ContributedSavings("underutilized") + ContributedSavings("stopped")
                   + ContributedSavings("unattached")
        /\ \E order \in UnderutilizedOrders(OtherChecksRepaired("underutilized")) :
               checks["underutilized"] =
                   analyzeUnderutilizedInstances(OtherChecksRepaired("underutilized"), order)
        /\ checks["stopped"] = analyzeStoppedInstances(OtherChecksRepaired("stopped"))
        /\ checks["unattached"] =
               analyzeUnattachedVolumes(OtherChecksRepaired("unattached"), env.volumes)

C6_Witness ==
    /\ env.blade = "EC2"
    /\ pc = "done"
    /\ Fails(env, StoppedCall)
    /\ \E k \in 1..Len(env.instances) : env.instances[k].state = "stopped"
    /\ ~env.savings["t2.micro"].ok
    /\ HasLine(result.Recommendations, "Upgrade", "i-2")
    /\ HasKind(result.Recommendations, "UnattachedVolume")
    /\ ~HasKind(result.Recommendations, "StoppedHeader")

DBInstancesCall == Call("DescribeDBInstances", "all")
ReservedCall == Call("DescribeReservedDBInstances", "all")

\* C7: when the database-instance listing fails, RDSBlade.Execute returns an
\* error and no result, and that listing is the only request of the call: no
\* snapshot listing, no metrics request, no reservation listing.
C7_DBListingFailureIsFatal ==
    (env.blade = "RDS" /\ Fails(env, DBInstancesCall)) =>
        /\ pc \in {"start", "done"}
        /\ pc = "done" =>
              /\ result.isNil
              /\ err # ""
              /\ calls = <<DBInstancesCall>>

C7_Witness ==
    /\ env.blade = "RDS"
    /\ pc = "done"
    /\ Fails(env, DBInstancesCall)
    /\ Len(env.dbInstances) = 2
    /\ DBAnalyzed(env.dbInstances[1])
    /\ result.isNil

MetricFailure(instance) == ~IsAurora(instance.engine) /\ ~env.metricData[instance.id].ok

HasHeader(recs, id) == HasLine(recs, "InstanceHeader", id)

\* C8 (as claimed): once the metrics request of one database instance has
\* failed, that instance contributes no line and no savings, every other
\* instance is still analyzed and Execute returns a result.
C8_MetricFailureSkipsOneInstance ==
    (/\ env.blade = "RDS"
     /\ pc \in {"instances", "panic", "done"}
     /\ \E k \in 1..idx : MetricFailure(instances[k]))
    => /\ pc # "panic"
       /\ \A k \in 1..idx :
            MetricFailure(instances[k]) => ~HasHeader(result.Recommendations, instances[k].id)
       /\ totalPotentialSavings = ExpectedDBSavings(idx)
       /\ pc = "done" =>
            /\ ~result.isNil /\ err = ""
            /\ \A k \in 1..Len(instances) :
                 DBFlagged(instances[k]) => HasHeader(result.Recommendations, instances[k].id)

\* The answers env would give with the reservation listing succeeding.
ReservedListingRepaired == [env EXCEPT !.failing = @ \ {ReservedCall}]

\* C9: when the reservation listing fails, RDSBlade.Execute still returns a
\* result without error; its per-instance recommendations and PotentialSavings
\* are those it would have with the listing succeeding, and it holds neither
\* the coverage recommendation nor the coverage detail.
C9_ReservedFailureSkipsCoverage ==
    [][(/\ env.blade = "RDS"
        /\ pc = "instances"
        /\ pc' = "done"
        /\ Fails(env, ReservedCall))
       => LET succeeded == FinishResult(ReservedListingRepaired, result,
                                        totalPotentialSavings,
                                        TotalSavingsFloat(env, instances, snapshots),
                                        Len(instances))
          IN /\ err' = "" /\ ~result'.isNil
             /\ result'.PotentialSavings = succeeded.PotentialSavings
             /\ result'.Recommendations =
                    SelectSeq(succeeded.Recommendations, LAMBDA l : l.kind # "LowCoverage")
             /\ result'.Recommendations = result.Recommendations
             /\ ~HasKind(result'.Recommendations, "LowCoverage")
             /\ "Reserved Instance Coverage" \notin DOMAIN result'.Details]_vars

C9_Witness ==
    /\ env.blade = "RDS"
    /\ Returned
    /\ Fails(env, ReservedCall)
    /\ HasHeader(result.Recommendations, "db-1")
    /\ result.PotentialSavings > 0
    /\ HasKind(FinishResult(ReservedListingRepaired, result, totalPotentialSavings,
                            TotalSavingsFloat(env, instances, snapshots),
                            Len(instances)).Recommendations, "LowCoverage")

\* C10 (as claimed): whatever collaborator requests fail, Execute ends by
\* returning an error or a result and never crashes.
C10_NeverCrashes ==
    /\ pc # "panic"
    /\ pc = "done" => (result.isNil <=> err # "")

\* A volume for which no unit price is to be had: the region is not priced or
\* the price lookup of its type fails.
Unpriced(volume) == ~IsRegionSupported(env) \/ ~GetVolumePrice(env, volume.type).ok

Unattached(volume) == volume.state = "available"

AttachedToStopped(volume) ==
    \E k \in 1..Len(env.instances) :
        env.instances[k].state = "stopped" /\ env.instances[k].id = volume.attachedTo

HasVolumeLine(recs, volume) ==
    \/ \E j \in 1..Len(recs) : recs[j].id = volume.id
    \/ \E j \in 1..Len(recs) :
          /\ recs[j].kind = "AttachedVolume"
          /\ recs[j].id = volume.attachedTo
          /\ recs[j].a = volume.type
          /\ recs[j].n = volume.size[1]

\* What the priced volumes of each volume check cost together.
ExpectedAttachedCost ==
    SumValues([k \in 1..Len(env.volumes) |->
                 IF AttachedToStopped(env.volumes[k]) /\ ~Unpriced(env.volumes[k])
                 THEN GetVolumePrice(env, env.volumes[k].type).val * env.volumes[k].size[1]
                 ELSE 0])

ExpectedUnattachedCost ==
    SumValues([k \in 1..Len(env.volumes) |->
                 IF Unattached(env.volumes[k]) /\ ~Unpriced(env.volumes[k])
                 THEN GetVolumePrice(env, env.volumes[k].type).val * env.volumes[k].size[1] * 24 * 30
                 ELSE 0])

\* C11 (as claimed): a volume of either volume check for which the region is
\* not priced or the price lookup fails gets no recommendation line and adds
\* nothing to PotentialSavings, and the volumes that are priced keep their lines.
C11_UnpricedVolumeSkipped ==
    (env.blade = "EC2" /\ Returned /\ env.failing = {}) =>
        \A k \in 1..Len(env.volumes) :
            LET volume == env.volumes[k]
            IN (Unattached(volume) \/ AttachedToStopped(volume)) =>
                   /\ Unpriced(volume) => ~HasVolumeLine(result.Recommendations, volume)
                   /\ ~Unpriced(volume) => HasVolumeLine(result.Recommendations, volume)
                   /\ checks["stopped"].savings = ExpectedAttachedCost
                   /\ checks["unattached"].savings = ExpectedUnattachedCost

LinesOfKind(recs, kind) == SelectSeq(recs, LAMBDA l : l.kind = kind)

\* C12: with price p per GiB-month and size s, an unattached volume is
\* reported and accumulated at p * s * 24 * 30 and a volume attached to a
\* stopped instance at p * s, reported to the cent; PotentialSavings is the
\* sum of both kinds of cost.
C12_VolumeCostFormulas ==
    env.blade = "EC2" =>
        /\ "stopped" \in DOMAIN checks =>
              /\ \A j \in 1..Len(checks["stopped"].recs) :
                    LET l == checks["stopped"].recs[j]
                    IN l.kind = "AttachedVolume" =>
                           ToTheCent(l.amount, GetVolumePrice(env, l.a).val * l.n)
              /\ env.failing = {} =>
                    /\ checks["stopped"].savings = ExpectedAttachedCost
                    /\ SumsTo(LinesOfKind(checks["stopped"].recs, "AttachedVolume"),
                              ExpectedAttachedCost)
        /\ "unattached" \in DOMAIN checks =>
              /\ \A j \in 1..Len(checks["unattached"].recs) :
                    LET l == checks["unattached"].recs[j]
                    IN l.kind = "UnattachedVolume" =>
                           ToTheCent(l.amount, GetVolumePrice(env, l.a).val * l.n * 24 * 30)
              /\ checks["unattached"].savings = ExpectedUnattachedCost
              /\ SumsTo(LinesOfKind(checks["unattached"].recs, "UnattachedVolume"),
                        ExpectedUnattachedCost)
        /\ (Returned /\ env.failing = {}) =>
              result.PotentialSavings =
                  checks["underutilized"].savings + ExpectedAttachedCost + ExpectedUnattachedCost

\* One stopped instance with one attached 100 GiB gp2 volume at 0.10 costs 10.00.
C12_Witness ==
    /\ Returned
    /\ Len(env.instances) = 1
    /\ Len(env.volumes) = 1
    /\ env.volumes[1].attachedTo = "i-1"
    /\ env.volumes[1].size = <<100>>
    /\ GetVolumePrice(env, env.volumes[1].type) = Ok(100)
    /\ HasKind(result.Recommendations, "AttachedVolume")
    /\ LinesOfKind(result.Recommendations, "AttachedVolume")[1].amount = 1000
    /\ result.PotentialSavings = 10000

\* The suggestions listed under the header of one database instance.
SectionOf(recs, id) ==
    IF ~HasHeader(recs, id) THEN <<>>
    ELSE LET j == CHOOSE i \in 1..Len(recs) :
                      recs[i].kind = "InstanceHeader" /\ recs[i].id = id
             ends == {i \in (j + 1)..Len(recs) :
                          recs[i].kind \in {"InstanceHeader", "LowCoverage"}}
             last == IF ends = {} THEN Len(recs)
                     ELSE (CHOOSE i \in ends : \A i2 \in ends : i <= i2) - 1
         IN SubSeq(recs, j + 1, last)

\* The samples the metrics provider holds of one metric of the k-th instance.
Samples(k, metric) ==
    LET data == env.metricData[env.dbInstances[k].id].val
    IN IF metric \in DOMAIN data THEN data[metric] ELSE <<>>

\* mean(samples) < limit and mean(samples) > limit, a metric without samples being 0.
MeanBelow(samples, limit) ==
    IF samples = <<>> THEN 0 < limit ELSE SumValues(samples) < limit * Len(samples)

MeanAbove(samples, limit) ==
    IF samples = <<>> THEN 0 > limit ELSE SumValues(samples) > limit * Len(samples)

\* mean(samples) > factor * mean(others).
MeanExceeds(samples, others, factor) ==
    LET n == IF samples = <<>> THEN 1 ELSE Len(samples)
        m == IF others = <<>> THEN 1 ELSE Len(others)
    IN SumValues(samples) * m > factor * SumValues(others) * n

\* The metrics of the k-th instance that getInstanceMetrics fills from the
\* given metric ids, each under the name of its id, with their float64 values.
MetricsOf(k, ids) ==
    [id \in ids |-> MetricValue(env.metricData[env.dbInstances[k].id].val, id)]
    @@ [Float |-> [id \in ids |->
                     MetricFloat(MetricValue(env.metricData[env.dbInstances[k].id].val, id))]]

\* The same two comparisons of the k-th instance's metric as Execute makes
\* them, on the float64 mean of the samples: the limit itself is below or
\* above where the float64 sum of the samples ends up there (a read latency
\* of 4, 35 and 21 ms has the float64 mean 0.020000000000000004 s).
Under(k, metric, limit) == Below(MetricsOf(k, {metric}), metric, limit)

Over(k, metric, limit) == Above(MetricsOf(k, {metric}), metric, limit)

\* mean(connections) < share/10 of the maximum of the class, and above it.
ConnectionsBelow(k, tenths) ==
    LET samples == Samples(k, "connections")
        max == MaxConnectionsOf(env.dbInstances[k].class)
    IN IF samples = <<>> THEN 0 < max * tenths
       ELSE SumValues(samples) * 10 < max * tenths * Len(samples)

ConnectionsAbove(k, tenths) ==
    LET samples == Samples(k, "connections")
        max == MaxConnectionsOf(env.dbInstances[k].class)
    IN samples # <<>> /\ SumValues(samples) * 10 > max * tenths * Len(samples)

\* The comparisons of the connections with a share of the maximum as Execute
\* makes them, against the float64 product MaxConnections*0.4 or
\* MaxConnections*0.7: 66*0.4 lies above 26.4 and 66*0.7 below 46.2, so that
\* a mean at the share itself counts as below 40% and as above 70% there.
ConnectionsUnder(k, tenths) ==
    BelowShare(MetricsOf(k, {"connections"}), "connections",
               MaxConnectionsOf(env.dbInstances[k].class), tenths)

ConnectionsOver(k, tenths) ==
    AboveShare(MetricsOf(k, {"connections"}), "connections",
               MaxConnectionsOf(env.dbInstances[k].class), tenths)

\* mean read IOPS above factor times the mean write IOPS, on float64.
ReadsOver(k, factor) ==
    AboveTimes(MetricsOf(k, {"read_iops", "write_iops"}), "read_iops", "write_iops", factor)

\* used storage below half of the allocated storage (free space in GiB).
StorageBelowHalf(k) ==
    LET samples == Samples(k, "storage")
        allocated == env.dbInstances[k].allocatedStorage
    IN samples = <<>> \/
       (allocated * Len(samples) - SumValues(samples)) * 100 < 50 * allocated * Len(samples)

\* The k-th instance has been through the battery.
Analyzed(k) ==
    /\ env.blade = "RDS"
    /\ pc \in {"instances", "done"}
    /\ k <= idx
    /\ DBAnalyzed(env.dbInstances[k])

SuggestionsOf(k) == SectionOf(result.Recommendations, env.dbInstances[k].id)

\* C13 (as claimed): the thresholds are strict.  The low-utilization
\* suggestion is made exactly when mean CPU is below 40 and mean connections
\* are below 40% of the maximum, so not at exactly 40 or exactly 40%; the
\* storage suggestion exactly when utilization is below 50 and allocated
\* storage above 100 GiB.  Execute compares the connections with the float64
\* product MaxConnections*0.4, which is 26.400000000000002 for the 66
\* connections of db.t3.micro: a mean of exactly 26.4 gets the suggestion.
C13_ThresholdsStrict ==
    \A k \in 1..Len(env.dbInstances) :
        Analyzed(k) =>
            /\ HasKind(SuggestionsOf(k), "LowUtilization")
                   <=> (MeanBelow(Samples(k, "cpu"), 40) /\ ConnectionsBelow(k, 4))
            /\ HasKind(SuggestionsOf(k), "ReduceStorage")
                   <=> (StorageBelowHalf(k) /\ env.dbInstances[k].allocatedStorage > 100)

UpgradeLinesFor(recs, id) == SelectSeq(recs, LAMBDA l : l.kind = "Upgrade" /\ l.id = id)

\* C14: every running instance whose type is a key of the Upgrade Map and
\* whose savings are positive gets exactly one upgrade line, naming its type,
\* the map's target and its own savings; no other instance gets one.  One
\* running t2.micro with savings of 5 gives one line "t2.micro to t3.micro"
\* and PotentialSavings 5.
C14_OneUpgradeLinePerInstance ==
    (/\ env.blade = "EC2"
     /\ "underutilized" \in DOMAIN checks
     /\ ~Fails(env, RunningCall))
    => /\ \A k \in 1..Len(env.instances) :
            LET instance == env.instances[k]
                lines == UpgradeLinesFor(result.Recommendations, instance.id)
            IN IF Flagged(instance)
               THEN /\ Len(lines) = 1
                    /\ lines[1].a = instance.type
                    /\ lines[1].b = instanceUpgrades[instance.type]
                    /\ ToTheCent(lines[1].amount, env.savings[instance.type].val)
               ELSE lines = <<>>
       /\ Len(LinesOfKind(result.Recommendations, "Upgrade"))
              = Cardinality({k \in 1..Len(env.instances) : Flagged(env.instances[k])})
       /\ checks["underutilized"].savings = ExpectedUpgradeSavings
       /\ (Returned /\ env.volumes = <<>>) => result.PotentialSavings = ExpectedUpgradeSavings

C14_Witness ==
    /\ Returned
    /\ env.blade = "EC2"
    /\ env.instances = <<[id |-> "i-1", type |-> "t2.micro", state |-> "running"]>>
    /\ env.savings["t2.micro"] = Ok(5)
    /\ LinesOfKind(result.Recommendations, "Upgrade")
           = <<Line("Upgrade", "i-1", "t2.micro", "t3.micro", 0, 5)>>
    /\ result.PotentialSavings = 5

AuroraFamily == {"aurora", "aurora-mysql", "aurora-postgresql"}

\* Savings of the first n instances, those of the aurora family set aside.
SavingsWithoutAurora(n) ==
    SumValues([k \in 1..n |->
                 LET instance == env.dbInstances[k]
                 IN IF /\ instance.engine \notin AuroraFamily
                       /\ env.metricData[instance.id].ok
                       /\ instance.class \in DOMAIN rdsInstanceUpgrades
                       /\ PositiveSavings(instance.class)
                    THEN env.savings[instance.class].val ELSE 0])

\* C15: an instance whose engine is aurora, aurora-mysql or aurora-postgresql
\* is skipped: no line of the result names it, no metrics request is issued
\* for it, and the accumulated savings are those of the other instances,
\* whatever its class, metrics or configuration.
C15_AuroraSkipped ==
    env.blade = "RDS" =>
        /\ \A k \in 1..Len(env.dbInstances) :
               env.dbInstances[k].engine \in AuroraFamily =>
                   /\ \A j \in 1..Len(result.Recommendations) :
                          result.Recommendations[j].id # env.dbInstances[k].id
                   /\ \A j \in 1..Len(calls) :
                          calls[j] # Call("GetMetricData", env.dbInstances[k].id)
        /\ pc \in {"instances", "done"} => totalPotentialSavings = SavingsWithoutAurora(idx)

\* An aurora-mysql instance of an upgradable class with busy metrics has been
\* passed over, and the run has returned.
C15_Witness ==
    /\ Returned
    /\ env.blade = "RDS"
    /\ Len(env.dbInstances) > 0
    /\ env.dbInstances[1].engine = "aurora-mysql"
    /\ env.dbInstances[1].class = "db.t3.micro"
    /\ PositiveSavings("db.t3.micro")
    /\ env.metricData[env.dbInstances[1].id].ok
    /\ Samples(1, "cpu") # <<>>
    /\ ~HasHeader(result.Recommendations, env.dbInstances[1].id)
    /\ result.PotentialSavings = 0

IsMultiZone(k) == env.dbInstances[k].multiAZ = <<TRUE>>

\* The condition of each heuristic of the battery, stated on what the
\* collaborators hold about the k-th instance, the means and the limits
\* being the float64 values Execute compares.
ConditionOf(k, kind) ==
    LET instance == env.dbInstances[k]
    IN CASE kind = "RdsUpgrade" ->
              instance.class \in DOMAIN rdsInstanceUpgrades /\ PositiveSavings(instance.class)
         [] kind = "LowUtilization" ->
              Under(k, "cpu", 40) /\ ConnectionsUnder(k, 4)
         [] kind = "ReduceStorage" ->
              StorageBelowHalf(k) /\ instance.allocatedStorage > 100
         [] kind = "HighSwap" -> Over(k, "swap_usage", 50)
         [] kind = "HighQueueDepth" -> Over(k, "disk_queue_depth", 1)
         [] kind = "HighLatency" ->
              Over(k, "read_latency", 20) \/ Over(k, "write_latency", 20)
         [] kind = "HighNetwork" ->
              Over(k, "network_receive", 100) \/ Over(k, "network_transmit", 100)
         [] kind = "UseReadReplicas" -> IsMultiZone(k) /\ ReadsOver(k, 4)
         [] kind = "EnableMultiAZ" ->
              ~IsMultiZone(k) /\ (Over(k, "write_iops", 1000) \/ ConnectionsOver(k, 7))
         [] kind = "LowBackupRetention" ->
              instance.backupRetention = <<>> \/ instance.backupRetention[1] < 7
         [] kind = "ManySnapshots" ->
              Cardinality({j \in 1..Len(env.dbSnapshots) :
                              env.dbSnapshots[j].dbInstance = instance.id}) > 30
         [] kind = "Deadlocks" ->
              instance.engine \in {"mysql", "mariadb"} /\ Over(k, "deadlocks", 0)
         [] kind = "BlockedTransactions" ->
              instance.engine = "postgres" /\ Over(k, "blocked_transactions", 5)
         [] kind = "LowBurstBalance" -> Under(k, "burst_balance", 20)

\* The heuristics in the order Execute runs them.
Battery ==
    <<"RdsUpgrade", "LowUtilization", "ReduceStorage", "HighSwap", "HighQueueDepth",
      "HighLatency", "HighNetwork", "UseReadReplicas", "EnableMultiAZ",
      "LowBackupRetention", "ManySnapshots", "Deadlocks", "BlockedTransactions",
      "LowBurstBalance">>

KindsOf(recs) == [j \in 1..Len(recs) |-> recs[j].kind]

\* C16: for an instance that is not skipped, every heuristic of the battery
\* fires exactly when its own condition holds, whichever earlier heuristics
\* fired: the suggestions under its header are, in battery order and once
\* each, those whose condition holds.  CPU 30%, connections 10% of the
\* maximum and 3 days of backups give both the low-utilization and the
\* low-backup-retention suggestion.
C16_EveryHeuristicOnItsOwn ==
    env.blade = "RDS" =>
        \A k \in 1..Len(env.dbInstances) :
            Analyzed(k) =>
                KindsOf(SuggestionsOf(k))
                    = SelectSeq(Battery, LAMBDA kind : ConditionOf(k, kind))

C16_Witness ==
    /\ Returned
    /\ Analyzed(1)
    /\ Samples(1, "cpu") = <<20, 40>>
    /\ Samples(1, "connections") = <<500>>
    /\ MaxConnectionsOf(env.dbInstances[1].class) = 5000
    /\ env.dbInstances[1].backupRetention = <<3>>
    /\ KindsOf(SuggestionsOf(1)) = <<"LowUtilization", "LowBackupRetention">>

\* C17 (as claimed): the read-replica and the enable-multi-zone suggestion
\* exclude each other.  The first is made only for a multi-zone instance
\* whose read IOPS exceed four times its write IOPS, the second only for an
\* instance that is not multi-zone (flag false or absent) with write IOPS
\* above 1000 or connections above 70% of the maximum; a multi-zone instance
\* never gets the second.  Execute compares the connections with the float64
\* product MaxConnections*0.7, which is 46.199999999999996 for the 66
\* connections of db.t3.micro: an instance that is not multi-zone gets the
\* second suggestion with a mean of exactly 46.2, which is 70% and not above.
C17_MultiZoneSuggestionsExclusive ==
    env.blade = "RDS" =>
        \A k \in 1..Len(env.dbInstances) :
            Analyzed(k) =>
                LET kinds == {SuggestionsOf(k)[j].kind : j \in 1..Len(SuggestionsOf(k))}
                IN /\ ~({"UseReadReplicas", "EnableMultiAZ"} \subseteq kinds)
                   /\ "UseReadReplicas" \in kinds =>
                          /\ env.dbInstances[k].multiAZ = <<TRUE>>
                          /\ MeanExceeds(Samples(k, "read_iops"), Samples(k, "write_iops"), 4)
                   /\ "EnableMultiAZ" \in kinds =>
                          /\ env.dbInstances[k].multiAZ \in {<<FALSE>>, <<>>}
                          /\ \/ MeanAbove(Samples(k, "write_iops"), 1000)
                             \/ ConnectionsAbove(k, 7)
                   /\ env.dbInstances[k].multiAZ = <<TRUE>> => "EnableMultiAZ" \notin kinds

ActiveReservations ==
    Cardinality({j \in 1..Len(env.reserved) : env.reserved[j].state = "active"})

\* C18: when the reservation listing succeeds, coverage is the number of
\* active reservation records over the number of all database instances
\* listed (aurora instances and instances skipped for a metric failure
\* included) times 100, and the coverage recommendation is appended exactly
\* when that is strictly below 80.  No active reservation against one
\* instance yields the recommendation.
C18_CoverageOverAllInstances ==
    (env.blade = "RDS" /\ Returned /\ ~Fails(env, ReservedCall)) =>
        LET total == Len(env.dbInstances)
            tenths == result.Details["Reserved Instance Coverage"]
            lines == LinesOfKind(result.Recommendations, "LowCoverage")
        IN /\ Len(lines) = IF total # 0 /\ ActiveReservations * 100 < 80 * total THEN 1 ELSE 0
           /\ total # 0 =>
                  /\ 2 * tenths * total <= 2000 * ActiveReservations + total
                  /\ 2 * tenths * total >= 2000 * ActiveReservations - total
           /\ \A j \in 1..Len(lines) : lines[j].n = tenths

C18_Witness ==
    /\ Returned
    /\ env.blade = "RDS"
    /\ Len(env.dbInstances) = 1
    /\ env.reserved = <<>>
    /\ ~Fails(env, ReservedCall)
    /\ result.Details["Reserved Instance Coverage"] = 0
    /\ LinesOfKind(result.Recommendations, "LowCoverage")
           = <<Line("LowCoverage", "", "", "", 0, 0)>>

\* The operations of the collaborator interfaces that only read: listings,
\* metric reads and pricing lookups.
ReadOnlyOperations ==
    {"DescribeInstances", "DescribeVolumes",
     "DescribeDBInstances", "DescribeReservedDBInstances", "DescribeDBSnapshots",
     "GetMetricData", "GetMetricStatistics",
     "IsRegionSupported", "GetVolumePrice", "CalculateInstanceSavings"}

\* C19: a run never mutates cloud resources.  Every collaborator operation
\* invoked during Execute of either analyzer is a listing, a metric read or a
\* pricing lookup, and the inventory the collaborators answer from is the
\* same after every step of the run as before it.
C19_RunsAreReadOnly ==
    /\ [](\A j \in 1..Len(calls) : calls[j].op \in ReadOnlyOperations)
    /\ [][env' = env]_vars

\* A returned run of the compute analyzer that listed volumes and instances
\* and looked up prices, with an unattached volume still in the inventory.
C19_Witness ==
    /\ Returned
    /\ env.blade = "EC2"
    /\ \E j \in 1..Len(env.volumes) : env.volumes[j].state = "available"
    /\ {"DescribeVolumes", "DescribeInstances", "GetVolumePrice", "CalculateInstanceSavings"}
           \subseteq {calls[j].op : j \in 1..Len(calls)}
    /\ HasKind(result.Recommendations, "UnattachedVolume")

Stored(c, region, service) == region \in DOMAIN c /\ service \in DOMAIN c[region]

\* Callers at a read of the map, at a write of the map, and holding the lock.
Reading(g) == At(g, "lookup")

Writing(g) == At(g, "write")

HoldsShared(g) == routines[g].pc \in {"lookup", "RUnlock"}

HoldsExclusive(g) == routines[g].pc \in {"write", "Unlock"}

\* fetchWithCache or ClearCache has returned to the caller.
HasReturned(g) == routines[g].pc \in {"return", "fetched"}

\* C20: concurrent fetchWithCache and ClearCache calls on one PricingClient
\* are safe.  The map is never read while another caller writes it and never
\* written by two callers at once: a reader holds the shared lock, a refresh
\* or a clear holds the exclusive lock.  No lock is left held when a call
\* returns, fetch errors included: the lock counts only the callers that
\* are inside a call.
C20_CacheAccessIsSafe ==
    /\ \A g, h \in Goroutines :
           g # h => ~(Writing(g) /\ (Reading(h) \/ Writing(h)))
    /\ \A g \in Goroutines :
           /\ Reading(g) => cacheMutex.readerCount > 0 /\ ~cacheMutex.locked
           /\ Writing(g) =>
                  cacheMutex.w = g /\ cacheMutex.locked /\ cacheMutex.readerCount = 0
           /\ HasReturned(g) => cacheMutex.w # g /\ ~HoldsShared(g) /\ ~HoldsExclusive(g)
    /\ cacheMutex.readerCount = Cardinality({g \in Goroutines : HoldsShared(g)})
    /\ cacheMutex.locked <=> \E g \in Goroutines : HoldsExclusive(g)
    /\ (\A g \in Goroutines : HasReturned(g) \/ At(g, "idle")) =>
           cacheMutex = [w |-> 0, readerCount |-> 0, locked |-> FALSE]

\* The fetch of a page, after the index was stored, has returned an error
\* from GetServicePricing while a clear is at its write under the exclusive
\* lock.
C20_Witness ==
    \E g, h \in Goroutines :
        /\ g # h
        /\ Writing(g)
        /\ routines[g].op = "ClearCache"
        /\ At(h, "return")
        /\ routines[h].call = "GetServicePricing"
        /\ routines[h].ret.err = "failed to fetch pricing data"
        /\ Stored(cache, env.region, IndexService)

ClientsInjected == env.clients # <<>> /\ env.clients[1] = "AWSClients"

\* C21: CreateBlade returns an error and nil blades for every provider other
\* than aws; for aws with injected clients it returns no error and exactly
\* two blades, the compute analyzer followed by the database analyzer.
C21_CreateBladeByProvider ==
    (env.blade = "Factory" /\ pc = "done") =>
        /\ env.provider # "aws" => (err # "" /\ blades = Nil)
        /\ (env.provider = "aws" /\ ClientsInjected) =>
               /\ err = ""
               /\ blades = <<"EC2 Optimization Blade", "RDS Optimization Blade">>

C21_Witness ==
    /\ env.blade = "Factory"
    /\ pc = "done"
    /\ env.provider = "aws"
    /\ env.clients = <<"AWSClients">>
    /\ env.sdk = "unable to load AWS SDK config"
    /\ err = ""
    /\ Len(blades) = 2

StateOf(id) ==
    LET k == CHOOSE j \in 1..Len(env.instances) : env.instances[j].id = id
    IN env.instances[k].state

\* C22: the underutilized-instance check recommends upgrades only for running
\* instances and the stopped-instance check counts only stopped instances,
\* whatever list the inventory provider returns; no instance is processed by
\* both checks in one Execute.
C22_ChecksPartitionByState ==
    (env.blade = "EC2" /\ Returned) =>
        /\ \A j \in 1..Len(result.Recommendations) :
               result.Recommendations[j].kind = "Upgrade" =>
                   StateOf(result.Recommendations[j].id) = "running"
        /\ \A j \in 1..Len(result.Recommendations) :
               result.Recommendations[j].kind = "StoppedHeader" =>
                   result.Recommendations[j].n
                       = Cardinality({k \in 1..Len(env.instances) :
                             /\ env.instances[k].state = "stopped"
                             /\ ~Fails(env, Call("DescribeVolumes", env.instances[k].id))})
        /\ \A k \in 1..Len(env.instances) :
               ~(/\ UpgradeLinesFor(result.Recommendations, env.instances[k].id) # <<>>
                 /\ \E j \in 1..Len(calls) :
                        calls[j] = Call("DescribeVolumes", env.instances[k].id))

\* A stopped instance is found when the listing returns it and its volumes
\* can be listed.
StoppedFound ==
    \E k \in 1..Len(env.instances) :
        /\ env.instances[k].state = "stopped"
        /\ ~Fails(env, Call("DescribeVolumes", env.instances[k].id))

AttachedFound ==
    {k \in 1..Len(env.volumes) :
        /\ AttachedToStopped(env.volumes[k])
        /\ ~Fails(env, Call("DescribeVolumes", env.volumes[k].attachedTo))}

PricedAttached == {k \in AttachedFound : ~Unpriced(env.volumes[k])}

StoppedLines == checks["stopped"].recs

StoppedSuggestions ==
    <<"TerminateLongStopped", "SnapshotBeforeTermination", "AutomateCleanup",
      "RecreateFromSnapshots">>

\* C23 as stated: when a stopped instance is found, the stopped-instance check
\* emits one recommendation line per attached volume found.
C23_OneLinePerAttachedVolume ==
    (env.blade = "EC2" /\ "stopped" \in DOMAIN checks /\ StoppedFound) =>
        Len(LinesOfKind(StoppedLines, "AttachedVolume")) = Cardinality(AttachedFound)

\* C23, amended: when a stopped instance is found, the stopped-instance check
\* emits a heading with the number of stopped instances, one line per attached
\* volume that could be priced (none for a volume whose region or type has no
\* price), one totals line whose amount is the check's contribution to
\* PotentialSavings, a heading and the four remediation suggestions, in that
\* order; when none is found it emits no line and contributes nothing.
C23_StoppedReport ==
    (env.blade = "EC2" /\ "stopped" \in DOMAIN checks /\ ~checks["stopped"].err) =>
        LET m == Cardinality(PricedAttached)
        IN IF StoppedFound
           THEN /\ Len(StoppedLines) = m + 7
                /\ StoppedLines[1].kind = "StoppedHeader"
                /\ \A j \in 2..(m + 1) : StoppedLines[j].kind = "AttachedVolume"
                /\ \A k \in PricedAttached :
                       \E j \in 2..(m + 1) :
                          /\ StoppedLines[j].id = env.volumes[k].attachedTo
                          /\ StoppedLines[j].a = env.volumes[k].type
                          /\ StoppedLines[j].n = env.volumes[k].size[1]
                /\ StoppedLines[m + 2].kind = "StoppedTotal"
                /\ ToTheCent(StoppedLines[m + 2].amount, checks["stopped"].savings)
                /\ StoppedLines[m + 3].kind = "ConsiderActions"
                /\ \A j \in 1..4 : StoppedLines[m + 3 + j].kind = StoppedSuggestions[j]
           ELSE /\ StoppedLines = <<>>
                /\ checks["stopped"].savings = 0

C23_Witness ==
    /\ env.blade = "EC2"
    /\ Returned
    /\ StoppedFound
    /\ PricedAttached # {}
    /\ AttachedFound # PricedAttached
    /\ Len(StoppedLines) = Cardinality(PricedAttached) + 7

CallCount(c) == Len(SelectSeq(calls, LAMBDA x : x = c))

\* Requests whose arguments name what is asked for; a price or savings lookup
\* is issued once per resource and so may recur for resources of one type.
Requests ==
    {"DescribeVolumes", "DescribeInstances", "DescribeDBInstances", "DescribeDBSnapshots",
     "DescribeReservedDBInstances", "GetMetricData"}

MetricsCall(k) == Call("GetMetricData", env.dbInstances[k].id)

\* C24: no collaborator call is retried.  Within one Execute no request is
\* issued twice, whether it failed or not, and exactly one metrics request is
\* issued for each database instance the loop has reached that is not of the
\* aurora family; none for an aurora instance or one not yet reached.
C24_NoRetry ==
    /\ runs = 1 =>
           \A j \in 1..Len(calls) : calls[j].op \in Requests => CallCount(calls[j]) = 1
    /\ (env.blade = "RDS" /\ pc \in {"instances", "done"}) =>
           \A k \in 1..Len(env.dbInstances) :
               CallCount(MetricsCall(k))
                   = IF k <= idx /\ ~IsAurora(env.dbInstances[k].engine) THEN 1 ELSE 0

\* The run has returned after a metrics request and a listing failed: the
\* failed metrics request and the failed listing were each issued once.
C24_Witness ==
    /\ env.blade = "RDS"
    /\ Returned
    /\ Fails(env, ReservedCall)
    /\ CallCount(ReservedCall) = 1
    /\ \E k \in 1..Len(env.dbInstances) :
          /\ ~IsAurora(env.dbInstances[k].engine)
          /\ ~env.metricData[env.dbInstances[k].id].ok
          /\ CallCount(MetricsCall(k)) = 1
    /\ \E k \in 1..Len(env.dbInstances) :
          /\ DBAnalyzed(env.dbInstances[k])
          /\ CallCount(MetricsCall(k)) = 1

Stepped(g) == routines'[g] # routines[g]

\* The lookup finds an entry exactly when one is stored under the caller's key
\* and is younger than CacheExpiration; what it finds is that entry.
LookupByKey(g) ==
    (At(g, "lookup") /\ Stepped(g)) =>
        LET region == routines[g].region
            service == routines[g].service
            hit == /\ Stored(cache, region, service)
                   /\ now - cache[region][service].Timestamp < CacheExpiration
        IN /\ routines'[g].cached = IF hit THEN <<cache[region][service]>> ELSE <<>>
           /\ cache' = cache

\* Where fetchWithCache returns to: GetServiceIndex after the fetch of the
\* index, the caller of GetServicePricing after the fetch of a page.
ReturnsTo(g) == IF routines[g].service = IndexService THEN "fetched" ELSE "return"

\* A hit returns the stored bytes without a fetch; a miss goes on to fetch.
HitOrFetch(g) ==
    (At(g, "RUnlock") /\ Stepped(g)) =>
        /\ IF routines[g].cached # <<>>
           THEN /\ routines'[g].pc = ReturnsTo(g)
                /\ routines'[g].ret = [data |-> routines[g].cached[1].Data, err |-> ""]
           ELSE routines'[g].pc = "Get"
        /\ cache' = cache

\* A fetch is issued only after a miss; a failed one, at the request or at
\* the read of the body, returns an error and leaves the cache alone.
FetchAfterMiss(g) ==
    /\ (routines'[g].pc = "Get" /\ Stepped(g)) =>
           (At(g, "RUnlock") /\ routines[g].cached = <<>>)
    /\ (routines'[g].pc = "ReadAll" /\ Stepped(g)) => At(g, "Get")
    /\ (At(g, "Get") /\ Stepped(g)) =>
           /\ cache' = cache
           /\ \/ routines'[g].pc = "ReadAll"
              \/ routines'[g].pc = ReturnsTo(g) /\ routines'[g].ret.err # ""
    /\ (At(g, "ReadAll") /\ Stepped(g)) =>
           /\ cache' = cache
           /\ \/ routines'[g].pc = "Lock"
              \/ routines'[g].pc = ReturnsTo(g) /\ routines'[g].ret.err # ""

\* A successful fetch replaces the entry of its key, stamped with the current
\* time, and leaves every other key as it was; then the fetched bytes are returned.
StoreByKey(g) ==
    /\ (At(g, "write") /\ routines[g].op = "fetchWithCache" /\ Stepped(g)) =>
           /\ Stored(cache', routines[g].region, routines[g].service)
           /\ cache'[routines[g].region][routines[g].service]
                  = [Data |-> routines[g].data, Timestamp |-> now]
           /\ \A region \in AskedRegions, service \in AskedServices \cup {IndexService} :
                  <<region, service>> # <<routines[g].region, routines[g].service>> =>
                      /\ Stored(cache', region, service) <=> Stored(cache, region, service)
                      /\ Stored(cache, region, service) =>
                             cache'[region][service] = cache[region][service]
    /\ (At(g, "Unlock") /\ routines[g].op = "fetchWithCache" /\ Stepped(g)) =>
           /\ routines'[g].pc = ReturnsTo(g)
           /\ routines'[g].ret = [data |-> routines[g].data, err |-> ""]
           /\ cache' = cache

\* C25: the pricing cache is keyed by (region, service) with a freshness
\* window of CacheExpiration.  fetchWithCache returns the stored bytes without
\* a fetch exactly when an entry of its key is stored and younger than the
\* window; otherwise it fetches, and on success replaces the entry of that
\* key only, stamped with the current time; the cache changes in no other
\* step of a fetch.
C25_CacheByKey ==
    [][\A g \in Goroutines :
          /\ LookupByKey(g)
          /\ HitOrFetch(g)
          /\ FetchAfterMiss(g)
          /\ StoreByKey(g)
          /\ (cache' # cache) => \E h \in Goroutines : At(h, "write")]_vars

\* A day after the first pages were stored: one caller has found the fresh
\* entry of its key and is about to return the page of that region and
\* service, while the other asked for the same service in another region,
\* found that entry expired and has fetched a new page; the index, an entry
\* of another service in the first caller's region, is stored as well.
C25_Witness ==
    \E g, h \in Goroutines :
        /\ At(g, "RUnlock")
        /\ routines[g].cached # <<>>
        /\ routines[g].cached[1] =
               [Data |-> Page(routines[g].region, routines[g].service), Timestamp |-> now]
        /\ At(h, "Lock")
        /\ routines[h].op = "fetchWithCache"
        /\ routines[h].service = routines[g].service
        /\ routines[h].region # routines[g].region
        /\ Stored(cache, routines[h].region, routines[h].service)
        /\ now - cache[routines[h].region][routines[h].service].Timestamp = CacheExpiration
        /\ \E service \in (CacheServices \cup {IndexService}) \ {routines[g].service} :
               Stored(cache, routines[g].region, service)

\* C26: every volume cost that contributes to PotentialSavings is strictly
\* positive: no line of a volume attached to a stopped instance or of an
\* unattached volume carries a monthly cost of zero.
C26_VolumeCostsPositive ==
    (env.blade = "EC2" /\ Returned) =>
        \A j \in 1..Len(result.Recommendations) :
            result.Recommendations[j].kind \in {"AttachedVolume", "UnattachedVolume"} =>
                result.Recommendations[j].amount > 0

\* C27: the target named in an upgrade recommendation is the Upgrade Map's
\* entry for the instance's current type, and the savings beside it are the
\* price delta between the current type and that same target over the hours
\* of a month, printed to the cent, not a delta toward a type the pricing
\* data names.
C27_SavingsTowardMapTarget ==
    (env.blade = "EC2" /\ "onDemand" \in DOMAIN env /\ Returned) =>
        \A j \in 1..Len(result.Recommendations) :
            LET line == result.Recommendations[j]
                prices == env.onDemand.types
            IN line.kind = "Upgrade" =>
                  /\ line.b = instanceUpgrades[line.a]
                  /\ line.b \in DOMAIN prices
                  /\ ToTheCent(line.amount,
                               (prices[line.a].PricePerHour
                                   - prices[line.b].PricePerHour) * HoursRunning)

\* The line of one kind among the suggestions of the k-th instance, if any.
SuggestionLines(k, kind) == LinesOfKind(SuggestionsOf(k), kind)

NoSamples(k) ==
    \A metric \in DOMAIN env.metricData[env.dbInstances[k].id].val : Samples(k, metric) = <<>>

\* C28: a metric without samples counts as 0 and an absent backup retention
\* as 0 days.  An analyzed instance without CPU and connection samples gets
\* the low-utilization suggestion at 0%, one without burst-balance samples
\* the low-burst-balance suggestion at 0, one without a backup retention the
\* low-backup-retention suggestion at 0 days; an instance whose metrics
\* response holds no data and whose record has no retention gets all three.
C28_MissingCountsAsZero ==
    env.blade = "RDS" =>
        \A k \in 1..Len(env.dbInstances) :
            Analyzed(k) =>
                /\ (Samples(k, "cpu") = <<>> /\ Samples(k, "connections") = <<>>) =>
                       /\ Len(SuggestionLines(k, "LowUtilization")) = 1
                       /\ SuggestionLines(k, "LowUtilization")[1].n = 0
                /\ Samples(k, "burst_balance") = <<>> =>
                       /\ Len(SuggestionLines(k, "LowBurstBalance")) = 1
                       /\ SuggestionLines(k, "LowBurstBalance")[1].n = 0
                /\ env.dbInstances[k].backupRetention = <<>> =>
                       /\ Len(SuggestionLines(k, "LowBackupRetention")) = 1
                       /\ SuggestionLines(k, "LowBackupRetention")[1].n = 0
                /\ (NoSamples(k) /\ env.dbInstances[k].backupRetention = <<>>) =>
                       {"LowUtilization", "LowBackupRetention", "LowBurstBalance"}
                           \subseteq {SuggestionsOf(k)[j].kind : j \in 1..Len(SuggestionsOf(k))}

\* The run has returned; the second instance, with an empty metrics response
\* and no backup retention, has the three suggestions under its header.
C28_Witness ==
    /\ env.blade = "RDS"
    /\ Returned
    /\ Len(env.dbInstances) > 1
    /\ Analyzed(2)
    /\ NoSamples(2)
    /\ env.dbInstances[2].backupRetention = <<>>
    /\ KindsOf(SuggestionsOf(2))
           = <<"RdsUpgrade", "LowUtilization", "LowBackupRetention", "LowBurstBalance">>

\* C29: with an empty database inventory and a succeeding reservation
\* listing, Execute returns a result without error whose PotentialSavings is
\* 0 and whose recommendation list is empty: no instance line and, the
\* coverage ratio having a zero denominator, no coverage recommendation.
C29_EmptyInventory ==
    (/\ env.blade = "RDS"
     /\ pc = "done"
     /\ env.dbInstances = <<>>
     /\ ~Fails(env, DBInstancesCall)
     /\ ~Fails(env, ReservedCall)) =>
        /\ err = ""
        /\ ~result.isNil
        /\ result.PotentialSavings = 0
        /\ result.Recommendations = <<>>
        /\ result.Details["Total Monthly Savings"] = 0
        /\ result.Details["Reserved Instance Coverage"] = CoverageTenths(ActiveReservations, 0)

\* No instance against two reservations, one of them active: the run has
\* returned an empty list.
C29_Witness ==
    /\ env.blade = "RDS"
    /\ Returned
    /\ env.dbInstances = <<>>
    /\ Len(env.reserved) = 2
    /\ ActiveReservations = 1
    /\ calls = <<DBInstancesCall, Call("DescribeDBSnapshots", "all"), ReservedCall>>
    /\ result.Recommendations = <<>>

\* The heuristics whose condition holds for the k-th instance, in battery order.
Fired(k) ==
    IF DBAnalyzed(env.dbInstances[k])
    THEN SelectSeq(Battery, LAMBDA kind : ConditionOf(k, kind))
    ELSE <<>>

\* What the list holds for the instances from the k-th on: for each instance
\* with a heuristic that fired, in inventory order, a header naming it and
\* then the kinds that fired.
RECURSIVE ExpectedSections(_)
ExpectedSections(k) ==
    IF k > Len(env.dbInstances) THEN <<>>
    ELSE LET fired == Fired(k)
         IN (IF fired = <<>> THEN <<>>
             ELSE <<<<"InstanceHeader", env.dbInstances[k].id>>>>
                      \o [j \in 1..Len(fired) |-> <<fired[j], "">>])
            \o ExpectedSections(k + 1)

\* The list as kinds, with the instance a header names.
ListedSections(recs) ==
    [j \in 1..Len(recs) |->
        <<recs[j].kind, IF recs[j].kind = "InstanceHeader" THEN recs[j].id ELSE "">>]

\* C30: the database result's list is ordered.  It holds, for the instances
\* in inventory order, a header naming the instance exactly when a heuristic
\* fired for it, followed at once by its suggestions in battery order, and
\* after these the coverage recommendation, when there is one, as the last
\* entry.
C30_ListIsOrdered ==
    (env.blade = "RDS" /\ Returned) =>
        LET recs == result.Recommendations
            perInstance == SelectSeq(recs, LAMBDA l : l.kind # "LowCoverage")
        IN /\ ListedSections(perInstance) = ExpectedSections(1)
           /\ \A j \in 1..Len(recs) : recs[j].kind = "LowCoverage" => j = Len(recs)

\* Two instances with suggestions and no reservation: the list holds the
\* section of db-1, the section of db-2 and then the coverage recommendation.
C30_Witness ==
    /\ env.blade = "RDS"
    /\ Returned
    /\ Len(env.dbInstances) = 2
    /\ Len(Fired(1)) > 1
    /\ Len(Fired(2)) > 1
    /\ Len(result.Recommendations) = Len(Fired(1)) + Len(Fired(2)) + 3
    /\ result.Recommendations[1].kind = "InstanceHeader"
    /\ result.Recommendations[1].id = env.dbInstances[1].id
    /\ result.Recommendations[Len(Fired(1)) + 2].kind = "InstanceHeader"
    /\ result.Recommendations[Len(Fired(1)) + 2].id = env.dbInstances[2].id
    /\ result.Recommendations[Len(result.Recommendations)].kind = "LowCoverage"

====
